---- MODULE Spec2Model ----
(***************************************************************************)
(* QuavixAI reasoning core: the generation engine (llm/engine.go), the     *)
(* manager that wraps it (llm/manager), the prompt builder and its parsers *)
(* (prompt/builder.go), the pgvector store (vector/pgvector.go) and the    *)
(* five-why orchestrator (chat/orchestrator.go).                           *)
(*                                                                         *)
(* Texts are sequences of one-character strings, so that the bracket       *)
(* extraction and the structural decoding of model output are computed as  *)
(* the code computes them.  Identifiers and names are plain strings, and   *)
(* an error is the empty string (nil) or the error's message.              *)
(***************************************************************************)
EXTENDS Integers, Sequences, FiniteSets, TLC

VARIABLES
    providers,        \* Engine.providers: logical name -> registered back end
    modelMap,         \* Engine.modelMap: mode -> model name
    mgr,              \* a Manager has been built around the engine
    kv,               \* the key/value store: key -> [val, ttl]
    vstore,           \* the vector_memory table: id -> [Content, Vector, Meta]
    pc,               \* position of the RunFiveWhy run
    cancelled,        \* the caller's context has been cancelled
    sessionID,        \* RunFiveWhy: sessionID
    userQuestion,     \* RunFiveWhy: userQuestion
    currentQuestion,  \* RunFiveWhy: currentQuestion
    i,                \* RunFiveWhy: loop counter
    answer,           \* RunFiveWhy: resp.Text of the current iteration
    session,          \* RunFiveWhy: *session
    rootCause,        \* RunFiveWhy: rootCause (the parsed RootCauseResult)
    solText,          \* RunFiveWhy: solResp.Text
    ret,              \* what RunFiveWhy returned: [has, session, err]
    trace,            \* history: the calls the run has made, with their errors
    lastGen,          \* history: the most recent Engine.Generate call
    input,            \* the arguments a function is applied to: [mode, text]
    output,           \* the function applied last and what it returned: [fn, val]
    frames            \* MemoryEngine: the frame of each caller's current call

vars == <<providers, modelMap, mgr, kv, vstore, pc, cancelled, sessionID,
          userQuestion, currentQuestion, i, answer, session, rootCause,
          solText, ret, trace, lastGen, input, output, frames>>

(***************************************************************************)
(* Text helpers                                                            *)
(***************************************************************************)
Whitespace == {" ", "\n", "\t", "\r"}

Digits == {"1", "2", "3", "4", "5", "6", "7", "8", "9"}

RECURSIVE TrimLeft(_)
TrimLeft(s) ==
    IF s # <<>> /\ Head(s) \in Whitespace THEN TrimLeft(Tail(s)) ELSE s

RECURSIVE TrimRight(_)
TrimRight(s) ==
    IF s # <<>> /\ s[Len(s)] \in Whitespace
    THEN TrimRight(SubSeq(s, 1, Len(s) - 1))
    ELSE s

\* strings.TrimSpace
TrimSpace(s) == TrimRight(TrimLeft(s))

\* strings.Index(s, c) for a one-character c, 1-based; 0 when absent (Go: -1)
Index(s, c) ==
    IF \E p \in 1..Len(s) : s[p] = c
    THEN CHOOSE p \in 1..Len(s) : s[p] = c /\ \A q \in 1..(p - 1) : s[q] # c
    ELSE 0

\* (a variant that finds the first occurrence instead)
LastIndex_First(s, c) ==
    IF \E p \in 1..Len(s) : s[p] = c
    THEN CHOOSE p \in 1..Len(s) : s[p] = c /\ \A q \in 1..(p - 1) : s[q] # c
    ELSE 0

\* strings.LastIndex(s, c), 1-based; 0 when absent (Go: -1)
LastIndex(s, c) ==
    IF \E p \in 1..Len(s) : s[p] = c
    THEN CHOOSE p \in 1..Len(s) : s[p] = c /\ \A q \in (p + 1)..Len(s) : s[q] # c
    ELSE 0

(***************************************************************************)
(* encoding/json, restricted to the values the model's texts can spell:    *)
(* objects, lists, strings whose only escapes are those of the quote and   *)
(* the backslash, and unsigned numbers without a zero.                     *)
(* A decoded value is [kind, str, mem]: kind "s" (string, str its text),   *)
(* "n" (number, str its digits), "o" (object, mem its members in order,    *)
(* each [key, val]) or "a" (list, mem its elements, each under key <<>>).  *)
(***************************************************************************)
StrVal(s) == [kind |-> "s", str |-> s, mem |-> <<>>]

ArrVal(m) == [kind |-> "a", str |-> <<>>, mem |-> m]

NumVal(s) == [kind |-> "n", str |-> s, mem |-> <<>>]

ObjVal(m) == [kind |-> "o", str |-> <<>>, mem |-> m]

NoParse == [ok |-> FALSE, next |-> 0, val |-> StrVal(<<>>)]

RECURSIVE SkipWS(_, _)
SkipWS(s, p) ==
    IF p <= Len(s) /\ s[p] \in Whitespace THEN SkipWS(s, p + 1) ELSE p

RECURSIVE DigitsEnd(_, _)
DigitsEnd(s, p) ==
    IF p <= Len(s) /\ s[p] \in Digits THEN DigitsEnd(s, p + 1) ELSE p

\* the position of the quote closing the string opened before p; 0 if none
RECURSIVE StringEnd(_, _)
StringEnd(s, p) ==
    IF p > Len(s) THEN 0
    ELSE IF s[p] = "\"" THEN p
    ELSE IF s[p] \in {"\n", "\t", "\r"} THEN 0
    ELSE IF s[p] = "\\"
         THEN IF p + 1 <= Len(s) /\ s[p + 1] \in {"\"", "\\"}
              THEN StringEnd(s, p + 2)
              ELSE 0
    ELSE StringEnd(s, p + 1)

\* the text a string literal's body spells
RECURSIVE Unescape(_)
Unescape(s) ==
    IF s = <<>> THEN <<>>
    ELSE IF Head(s) = "\\" THEN <<s[2]>> \o Unescape(SubSeq(s, 3, Len(s)))
    ELSE <<Head(s)>> \o Unescape(Tail(s))

ParseString(s, p) ==
    IF p > Len(s) \/ s[p] # "\"" THEN NoParse
    ELSE LET q == StringEnd(s, p + 1) IN
         IF q = 0 THEN NoParse
         ELSE [ok |-> TRUE, next |-> q + 1,
               val |-> StrVal(Unescape(SubSeq(s, p + 1, q - 1)))]

RECURSIVE ParseValue(_, _)
RECURSIVE ParseMembers(_, _, _)
RECURSIVE ParseElements(_, _, _)

\* the elements of a list from position p, after the ones in acc
ParseElements(s, p, acc) ==
    LET v == ParseValue(s, p) IN
    IF ~v.ok THEN NoParse
    ELSE LET e    == SkipWS(s, v.next)
             acc2 == Append(acc, [key |-> <<>>, val |-> v.val])
         IN IF e > Len(s) THEN NoParse
            ELSE IF s[e] = "]"
                 THEN [ok |-> TRUE, next |-> e + 1, val |-> ArrVal(acc2)]
            ELSE IF s[e] = ","
                 THEN ParseElements(s, SkipWS(s, e + 1), acc2)
            ELSE NoParse

\* the members of an object from position p, after the ones in acc
ParseMembers(s, p, acc) ==
    LET k == ParseString(s, p) IN
    IF ~k.ok THEN NoParse
    ELSE LET c == SkipWS(s, k.next) IN
         IF c > Len(s) \/ s[c] # ":" THEN NoParse
         ELSE LET v == ParseValue(s, SkipWS(s, c + 1)) IN
              IF ~v.ok THEN NoParse
              ELSE LET e    == SkipWS(s, v.next)
                       acc2 == Append(acc, [key |-> k.val.str, val |-> v.val])
                   IN IF e > Len(s) THEN NoParse
                      ELSE IF s[e] = "}"
                           THEN [ok |-> TRUE, next |-> e + 1, val |-> ObjVal(acc2)]
                      ELSE IF s[e] = ","
                           THEN ParseMembers(s, SkipWS(s, e + 1), acc2)
                      ELSE NoParse

ParseValue(s, p) ==
    IF p > Len(s) THEN NoParse
    ELSE IF s[p] = "\"" THEN ParseString(s, p)
    ELSE IF s[p] \in Digits
         THEN LET q == DigitsEnd(s, p) IN
              [ok |-> TRUE, next |-> q, val |-> NumVal(SubSeq(s, p, q - 1))]
    ELSE IF s[p] = "{"
         THEN LET q == SkipWS(s, p + 1) IN
              IF q <= Len(s) /\ s[q] = "}"
              THEN [ok |-> TRUE, next |-> q + 1, val |-> ObjVal(<<>>)]
              ELSE ParseMembers(s, q, <<>>)
    ELSE IF s[p] = "["
         THEN LET q == SkipWS(s, p + 1) IN
              IF q <= Len(s) /\ s[q] = "]"
              THEN [ok |-> TRUE, next |-> q + 1, val |-> ArrVal(<<>>)]
              ELSE ParseElements(s, q, <<>>)
    ELSE NoParse

\* json.Unmarshal(data, &v) for v a map[string]interface{} or a struct:
\* the whole of data must be one value, and that value an object
DecodeObject(s) ==
    LET v == ParseValue(s, SkipWS(s, 1)) IN
    IF v.ok /\ v.val.kind = "o" /\ SkipWS(s, v.next) = Len(s) + 1
    THEN [ok |-> TRUE, val |-> v.val]
    ELSE [ok |-> FALSE, val |-> ObjVal(<<>>)]

\* extractJSON: [err, json]
extractJSON(raw0) ==
    LET raw   == TrimSpace(raw0)
        start == Index(raw, "{")
        end   == LastIndex(raw, "}")
    IN IF start = 0 \/ end = 0 \/ end <= start
       THEN [err |-> "no json found in llm output", json |-> <<>>]
       ELSE LET jsonStr == SubSeq(raw, start, end) IN
            IF ~DecodeObject(jsonStr).ok
            THEN [err |-> "invalid json structure", json |-> <<>>]
            ELSE [err |-> "", json |-> jsonStr]

(***************************************************************************)
(* The structured records of the pipeline, each as the list of its fields: *)
(* the Go field, its json key and the kind of value it accepts ("s" a      *)
(* string, "n" a number, "a" a list of strings).                           *)
(***************************************************************************)
RootCauseResult ==
    <<[name |-> "RootCause", type |-> "s",
        key |-> <<"r", "o", "o", "t", "_", "c", "a", "u", "s", "e">>],
       [name |-> "Confidence", type |-> "n",
        key |-> <<"c", "o", "n", "f", "i", "d", "e", "n", "c", "e">>],
       [name |-> "Evidence", type |-> "a",
        key |-> <<"e", "v", "i", "d", "e", "n", "c", "e">>],
       [name |-> "Category", type |-> "s",
        key |-> <<"c", "a", "t", "e", "g", "o", "r", "y">>],
       [name |-> "ImpactScope", type |-> "s",
        key |-> <<"i", "m", "p", "a", "c", "t", "_", "s", "c", "o", "p", "e">>]>>

SolutionResult ==
    <<[name |-> "Immediate", type |-> "a",
        key |-> <<"i", "m", "m", "e", "d", "i", "a", "t", "e", "_", "a", "c", "t", "i", "o", "n", "s">>],
       [name |-> "Strategic", type |-> "a",
        key |-> <<"s", "t", "r", "a", "t", "e", "g", "i", "c", "_", "a", "c", "t", "i", "o", "n", "s">>],
       [name |-> "Preventive", type |-> "a",
        key |-> <<"p", "r", "e", "v", "e", "n", "t", "i", "v", "e", "_", "a", "c", "t", "i", "o", "n", "s">>],
       [name |-> "Automation", type |-> "a",
        key |-> <<"a", "u", "t", "o", "m", "a", "t", "i", "o", "n", "_", "o", "p", "p", "o", "r", "t", "u", "n", "i", "t", "i", "e", "s">>],
       [name |-> "Owner", type |-> "s",
        key |-> <<"o", "w", "n", "e", "r">>],
       [name |-> "Complexity", type |-> "s",
        key |-> <<"c", "o", "m", "p", "l", "e", "x", "i", "t", "y">>],
       [name |-> "TimeHorizon", type |-> "s",
        key |-> <<"t", "i", "m", "e", "_", "h", "o", "r", "i", "z", "o", "n">>]>>

ReframedQuestion ==
    <<[name |-> "Original", type |-> "s",
        key |-> <<"o", "r", "i", "g", "i", "n", "a", "l">>],
       [name |-> "Reframed", type |-> "s",
        key |-> <<"r", "e", "f", "r", "a", "m", "e", "d">>],
       [name |-> "Intent", type |-> "s",
        key |-> <<"i", "n", "t", "e", "n", "t">>],
       [name |-> "Goal", type |-> "s",
        key |-> <<"g", "o", "a", "l">>]>>

FieldNames(schema) == {schema[j].name : j \in 1..Len(schema)}

\* the zero value of a record type: every field empty
ZeroValue(schema) == [n \in FieldNames(schema) |-> <<>>]

\* the text of the last member of obj under key, <<>> if there is none
RECURSIVE MemberText(_, _, _)
MemberText(mem, key, sofar) ==
    IF mem = <<>> THEN sofar
    ELSE MemberText(Tail(mem), key,
                    IF Head(mem).key = key THEN Head(mem).val.str ELSE sofar)

\* json.Unmarshal([]byte(jsonStr), out) for out a struct of the given type:
\* [err, out].  A member whose key names a field must hold a value of the
\* field's kind; members under other keys are skipped.
Unmarshal(jsonStr, schema) ==
    LET d == DecodeObject(jsonStr) IN
    IF ~d.ok
    THEN [err |-> "json: invalid input", out |-> ZeroValue(schema)]
    ELSE IF \E m \in 1..Len(d.val.mem) : \E f \in 1..Len(schema) :
                /\ d.val.mem[m].key = schema[f].key
                /\ \/ d.val.mem[m].val.kind # schema[f].type
                   \/ \E e \in 1..Len(d.val.mem[m].val.mem) :
                         /\ schema[f].type = "a"
                         /\ d.val.mem[m].val.mem[e].val.kind # "s"
         THEN [err |-> "json: cannot unmarshal value into field",
               out |-> ZeroValue(schema)]
         ELSE [err |-> "",
               out |-> [n \in FieldNames(schema) |->
                          LET f == CHOOSE j \in 1..Len(schema) : schema[j].name = n
                          IN MemberText(d.val.mem, schema[f].key, <<>>)]]

\* (a variant that decodes the raw text when no object can be cut out of it)
ParseInto_Lenient(raw, schema) ==
    LET x == extractJSON(raw) IN
    IF x.err = "no json found in llm output"
    THEN [err |-> "", out |-> ZeroValue(schema)]
    ELSE IF x.err # "" THEN [err |-> x.err, out |-> ZeroValue(schema)]
    ELSE Unmarshal(x.json, schema)

\* PromptBuilder.ParseRootCause / ParseSolution / ParseReframe, by the type
\* of the record they fill: [err, out]
ParseInto(raw, schema) ==
    LET x == extractJSON(raw) IN
    IF x.err # "" THEN [err |-> x.err, out |-> ZeroValue(schema)]
    ELSE Unmarshal(x.json, schema)

ParseRootCause(raw) == ParseInto(raw, RootCauseResult)

ParseSolution(raw) == ParseInto(raw, SolutionResult)

ParseReframe(raw) == ParseInto(raw, ReframedQuestion)

(***************************************************************************)
(* Generation engine (llm/engine.go)                                       *)
(***************************************************************************)
ModeReasoning == "reasoning"

ModeAnalysis == "analysis"

ModeDiagnosis == "diagnosis"

ModePlanning == "planning"

ModeDefault == "default"

DefaultMaxTokens == 1024

StubTokens == 128

\* a request is [Mode, Prompt, Temperature, MaxTokens]; a response is
\* [Text, Tokens, Provider, Model, Confidence] (Latency, a wall-clock
\* reading, is left out); Response{} is the zero value
EmptyResponse ==
    [Text |-> <<>>, Tokens |-> 0, Provider |-> "", Model |-> "", Confidence |-> 0]

EmptyProviderRequest ==
    [Prompt |-> <<>>, Temperature |-> 0, MaxTokens |-> 0, Model |-> ""]

\* NewEngine: the mode -> model table
NewModelMap ==
    [m \in {ModeReasoning, ModeAnalysis, ModeDiagnosis, ModePlanning, ModeDefault} |->
        CASE m = ModeReasoning -> "reasoning-model"
          [] m = ModeAnalysis  -> "analysis-model"
          [] m = ModeDiagnosis -> "diagnosis-model"
          [] m = ModePlanning  -> "planning-model"
          [] OTHER             -> "default-model"]

\* (a variant that refuses the modes outside the enum)
SelectProvider_Strict(mode) ==
    CASE mode = ModeReasoning -> [name |-> "primary", err |-> ""]
      [] mode = ModeAnalysis  -> [name |-> "primary", err |-> ""]
      [] mode = ModeDiagnosis -> [name |-> "primary", err |-> ""]
      [] mode = ModePlanning  -> [name |-> "primary", err |-> ""]
      [] mode = ModeDefault   -> [name |-> "primary", err |-> ""]
      [] OTHER                -> [name |-> "", err |-> "no provider for mode"]

\* PolicyEngine.SelectProvider: [name, err]
SelectProvider(mode) ==
    CASE mode = ModeReasoning -> [name |-> "primary", err |-> ""]
      [] mode = ModeAnalysis  -> [name |-> "primary", err |-> ""]
      [] mode = ModeDiagnosis -> [name |-> "primary", err |-> ""]
      [] mode = ModePlanning  -> [name |-> "primary", err |-> ""]
      [] OTHER                -> [name |-> "primary", err |-> ""]

\* (a variant whose buckets start at the thresholds themselves)
ConfidenceOfLength_Inclusive(l) ==
    IF l >= 1500 THEN 95
    ELSE IF l >= 800 THEN 85
    ELSE IF l >= 300 THEN 70
    ELSE 50

\* PolicyEngine.EstimateConfidence, in hundredths, from the length of the text
ConfidenceOfLength(l) ==
    IF l > 1500 THEN 95
    ELSE IF l > 800 THEN 85
    ELSE IF l > 300 THEN 70
    ELSE 50

EstimateConfidence(mode, text) == ConfidenceOfLength(Len(text))

\* e.modelMap[mode], "" when the table has no entry
ModelOf(mm, mode) == IF mode \in DOMAIN mm THEN mm[mode] ELSE ""

\* (a variant without the fall-back on the default mode's entry)
ResolveModel_NoFallback(mm, mode) == ModelOf(mm, mode)

\* Engine.Generate, model routing
ResolveModel(mm, mode) ==
    IF ModelOf(mm, mode) = "" THEN ModelOf(mm, ModeDefault) ELSE ModelOf(mm, mode)

\* Engine.Generate, mode default
EffectiveMode(mode) == IF mode = "" THEN ModeDefault ELSE mode

\* (a variant that overrides the caller's budget)
EffectiveMaxTokens_Always(n) == DefaultMaxTokens

\* Engine.Generate, max-token default
EffectiveMaxTokens(n) == IF n = 0 THEN DefaultMaxTokens ELSE n

\* (a variant that keeps the back end already registered under the name)
Register_KeepFirst(provs, p) ==
    [n \in DOMAIN provs \cup {p.name} |->
        IF n \in DOMAIN provs THEN provs[n] ELSE p]

\* Engine.RegisterProvider: the registry after e.providers[p.Name()] = p
Register(provs, p) ==
    [n \in DOMAIN provs \cup {p.name} |-> IF n = p.name THEN p ELSE provs[n]]

(***************************************************************************)
(* Back ends.  A back end is [kind, name]: the three stubs of the manager  *)
(* all answer to the name "primary"; "mock" is any other implementation of *)
(* the Provider interface, registered under its own name.                  *)
(***************************************************************************)
StubKinds == {"openai", "ollama", "local"}

Stubs == {[kind |-> k, name |-> "primary"] : k \in StubKinds}

Mocks == {[kind |-> "mock", name |-> n] : n \in {"primary", "secondary"}}

Backends == Stubs \cup Mocks

\* what a call of p.Generate(ctx, pReq) can return: [err, Text, Tokens, Model].
\* The stubs answer every request, whatever the context, and echo the model
\* they were asked for; their text is the placeholder followed by the prompt,
\* that is, one of the texts the prompt's template makes possible (replies).
\* Another implementation may fail, may give up when the context is done and
\* may report a model of its own.
ProviderGenerate(p, pReq, ctxDone, replies) ==
    LET ok(models) ==
            {[err |-> "", Text |-> t, Tokens |-> StubTokens, Model |-> m] :
                t \in replies, m \in models}
        failed(e) == [err |-> e, Text |-> <<>>, Tokens |-> 0, Model |-> ""]
    IN IF p.kind \in StubKinds
       THEN ok({pReq.Model})
       ELSE ok({pReq.Model, "backend-model"})
            \cup {failed("backend failure")}
            \cup (IF ctxDone THEN {failed("context canceled")} ELSE {})

\* (a variant without the prompt check)
ValidatePrompt_Skipped(prompt) == ""

\* Engine.Generate, validation: the error, "" when the prompt passes
ValidatePrompt(prompt) == IF prompt = <<>> THEN "empty prompt" ELSE ""

\* (a variant that falls back on any registered back end)
Lookup_AnyRegistered(provs, name) ==
    IF name \in DOMAIN provs THEN [ok |-> TRUE, provider |-> provs[name]]
    ELSE IF DOMAIN provs # {}
    THEN [ok |-> TRUE, provider |-> provs[CHOOSE n \in DOMAIN provs : TRUE]]
    ELSE [ok |-> FALSE, provider |-> [kind |-> "", name |-> ""]]

\* provider, ok := e.providers[providerName]
Lookup(provs, name) ==
    IF name \in DOMAIN provs
    THEN [ok |-> TRUE, provider |-> provs[name]]
    ELSE [ok |-> FALSE, provider |-> [kind |-> "", name |-> ""]]

\* Engine.Generate up to the dispatch: validation, defaults, routing.
\* [err, provider, mode, pReq]
EngineRoute(provs, mm, req) ==
    LET mode  == EffectiveMode(req.Mode)
        sel   == SelectProvider(mode)
        found == Lookup(provs, sel.name)
        stop(e) == [err |-> e, provider |-> [kind |-> "", name |-> ""],
                    mode |-> mode, pReq |-> EmptyProviderRequest]
    IN IF ValidatePrompt(req.Prompt) # "" THEN stop(ValidatePrompt(req.Prompt))
       ELSE IF sel.err # "" THEN stop(sel.err)
       ELSE IF ~found.ok
            THEN stop("llm provider not registered: " \o sel.name)
       ELSE [err |-> "", provider |-> found.provider, mode |-> mode,
             pReq |-> [Prompt      |-> req.Prompt,
                       Temperature |-> req.Temperature,
                       MaxTokens   |-> EffectiveMaxTokens(req.MaxTokens),
                       Model       |-> ResolveModel(mm, mode)]]

\* the outcomes the back end chosen for req can produce; one dummy outcome
\* when the request is not dispatched
NoOutcome == [err |-> "not dispatched", Text |-> <<>>, Tokens |-> 0, Model |-> ""]

Outcomes(provs, mm, req, ctxDone, replies) ==
    LET r == EngineRoute(provs, mm, req) IN
    IF r.err # "" THEN {NoOutcome}
    ELSE ProviderGenerate(r.provider, r.pReq, ctxDone, replies)

\* the response built from what the back end returned
BuildResponse(r, out) ==
    [Text       |-> out.Text,
     Tokens     |-> out.Tokens,
     Provider   |-> r.provider.name,
     Model      |-> out.Model,
     Confidence |-> EstimateConfidence(r.mode, out.Text)]

\* (a variant that calls the back end a second time when the first call fails)
EngineGenerate_Retry(provs, mm, req, out) ==
    LET r     == EngineRoute(provs, mm, req)
        again == [err |-> "", Text |-> <<"t">>, Tokens |-> StubTokens,
                  Model |-> r.pReq.Model]
    IN IF r.err # ""
       THEN [req |-> req, err |-> r.err, resp |-> EmptyResponse,
             sent |-> <<>>, got |-> <<>>]
       ELSE IF out.err # ""
       THEN [req |-> req, err |-> "", resp |-> BuildResponse(r, again),
             sent |-> <<r.pReq, r.pReq>>, got |-> <<out, again>>]
       ELSE [req |-> req, err |-> "", resp |-> BuildResponse(r, out),
             sent |-> <<r.pReq>>, got |-> <<out>>]

\* Engine.Generate, given what the back end returns if it is called:
\* [req, err, resp, sent, got], sent the provider requests dispatched and
\* got what the back end returned for each, in order
EngineGenerate(provs, mm, req, out) ==
    LET r == EngineRoute(provs, mm, req) IN
    IF r.err # ""
    THEN [req |-> req, err |-> r.err, resp |-> EmptyResponse,
          sent |-> <<>>, got |-> <<>>]
    ELSE IF out.err # ""
    THEN [req |-> req, err |-> out.err, resp |-> EmptyResponse,
          sent |-> <<r.pReq>>, got |-> <<out>>]
    ELSE [req |-> req, err |-> "", resp |-> BuildResponse(r, out),
          sent |-> <<r.pReq>>, got |-> <<out>>]

(***************************************************************************)
(* Stores                                                                  *)
(***************************************************************************)
LastResponseKey == "llm:last_response"

LastResponseMinutes == 30

\* (a variant that writes only where there is no value yet)
RedisSet_IfAbsent(store, key, val, ttl) ==
    [k \in DOMAIN store \cup {key} |->
        IF k \in DOMAIN store THEN store[k] ELSE [val |-> val, ttl |-> ttl]]

\* RedisClient.Set(ctx, key, val, ttl) when the server accepts the write
RedisSet(store, key, val, ttl) ==
    [k \in DOMAIN store \cup {key} |->
        IF k = key THEN [val |-> val, ttl |-> ttl] ELSE store[k]]

\* a vector.Document is [ID, Content, Vector, Meta].  A []float32 of the
\* program is [dim, num]: dim components, the k-th float32(num)/float32(k),
\* the only vectors Embed makes; NoVector is the nil slice
NoVector == [dim |-> 0, num |-> 0]

\* the places after the point that fmt's %f writes
SQLPlaces == 6

\* a component float32(num)/float32(k) is written in full by %f when its
\* decimal expansion ends within the places written
Precise(v) == \A k \in 1..v.dim : (v.num * 10^SQLPlaces) % k = 0

\* (a variant that writes every component in full)
vectorToSQL_Exact(v) == v

\* vectorToSQL: "ARRAY[..]" with every component formatted by %f, that is,
\* rounded to six places after the point; the row holds what was written
vectorToSQL(v) ==
    IF Precise(v) THEN v
    ELSE [dim |-> v.dim, num |-> v.num, places |-> SQLPlaces]

\* mapToJSON: "key":"value" pairs between braces, nothing escaped.  The
\* keys and values of the documents stored here are plain words, which the
\* JSONB column keeps as they are written
mapToJSON(meta) == meta

\* (a variant without the checks of the identifier and of the vector)
PgStore_Unchecked(store, doc, dbOk) ==
    IF ~dbOk THEN [err |-> "store failure", store |-> store]
    ELSE [err |-> "",
          store |-> [d \in DOMAIN store \cup {doc.ID} |->
                       IF d = doc.ID
                       THEN [Content |-> doc.Content,
                             Vector |-> vectorToSQL(doc.Vector),
                             Meta |-> mapToJSON(doc.Meta)]
                       ELSE store[d]]]

\* PgVectorStore.Store: [err, store].  dbOk: the INSERT .. ON CONFLICT runs
PgStore(store, doc, dbOk) ==
    IF doc.ID = "" THEN [err |-> "missing document id", store |-> store]
    ELSE IF doc.Vector.dim = 0
    THEN [err |-> "missing embedding vector", store |-> store]
    ELSE IF ~dbOk THEN [err |-> "store failure", store |-> store]
    ELSE [err |-> "",
          store |-> [d \in DOMAIN store \cup {doc.ID} |->
                       IF d = doc.ID
                       THEN [Content |-> doc.Content,
                             Vector |-> vectorToSQL(doc.Vector),
                             Meta |-> mapToJSON(doc.Meta)]
                       ELSE store[d]]]

(***************************************************************************)
(* Manager (llm): Generate and its memory hook                             *)
(***************************************************************************)
\* generateID: the clock reading, formatted; never empty
GeneratedID == "20060102150405.000000000"

\* (a variant that stores the response with a vector of its own)
storeMemory_Embedded(kvs, vs, req, resp, redisOk, dbOk) ==
    [kv |-> IF redisOk
            THEN RedisSet(kvs, LastResponseKey, resp.Text, LastResponseMinutes)
            ELSE kvs,
     vs |-> PgStore(vs,
                    [ID      |-> GeneratedID,
                     Content |-> resp.Text,
                     Vector  |-> [dim |-> 1, num |-> Len(resp.Text)],
                     Meta    |-> [mode |-> req.Mode, provider |-> resp.Provider,
                                  model |-> resp.Model]],
                    dbOk).store]

\* (a variant that keeps the last response as long as a session)
storeMemory_LongLived(kvs, vs, req, resp, redisOk, dbOk) ==
    [kv |-> IF redisOk
            THEN RedisSet(kvs, LastResponseKey, resp.Text, 24 * 60)
            ELSE kvs,
     vs |-> PgStore(vs,
                    [ID      |-> GeneratedID,
                     Content |-> resp.Text,
                     Vector  |-> NoVector,
                     Meta    |-> [mode |-> req.Mode, provider |-> resp.Provider,
                                  model |-> resp.Model]],
                    dbOk).store]

\* Manager.storeMemory: [kv, vs] afterwards; both writes are best-effort
storeMemory(kvs, vs, req, resp, redisOk, dbOk) ==
    [kv |-> IF redisOk
            THEN RedisSet(kvs, LastResponseKey, resp.Text, LastResponseMinutes)
            ELSE kvs,
     vs |-> PgStore(vs,
                    [ID      |-> GeneratedID,
                     Content |-> resp.Text,
                     Vector  |-> NoVector,
                     Meta    |-> [mode |-> req.Mode, provider |-> resp.Provider,
                                  model |-> resp.Model]],
                    dbOk).store]

\* Manager.Generate: [err, resp, kv, vs, gen], gen the engine's call
ManagerGenerate(provs, mm, kvs, vs, req, out, redisOk, dbOk) ==
    LET g == EngineGenerate(provs, mm, req, out) IN
    IF g.err # ""
    THEN [err |-> g.err, resp |-> EmptyResponse, kv |-> kvs, vs |-> vs, gen |-> g]
    ELSE LET m == storeMemory(kvs, vs, req, g.resp, redisOk, dbOk) IN
         [err |-> "", resp |-> g.resp, kv |-> m.kv, vs |-> m.vs, gen |-> g]

(***************************************************************************)
(* Prompt builder (prompt/builder.go).  The fixed text of a template is    *)
(* stood for by one token; the fields are rendered into it in order.       *)
(***************************************************************************)
FiveWhyTemplate == "[five-why]"

EvaluationTemplate == "[evaluation]"

NextWhyTemplate == "[next-why]"

RootCauseTemplate == "[root-cause]"

SolutionTemplate == "[solution]"

ReframeTemplate == "[reframe]"

\* the decimal digits of a natural number (fmt %d)
RECURSIVE NatChars(_)
NatChars(n) ==
    LET d == <<"0", "1", "2", "3", "4", "5", "6", "7", "8", "9">>[(n % 10) + 1] IN
    IF n < 10 THEN <<d>> ELSE Append(NatChars(n \div 10), d)

BuildFiveWhyPrompt(level, question) ==
    <<FiveWhyTemplate>> \o NatChars(level) \o <<":">> \o question

BuildEvaluationPrompt(question, ans) ==
    <<EvaluationTemplate>> \o question \o <<"|">> \o ans

BuildNextWhyPrompt(ans) == <<NextWhyTemplate>> \o ans

\* "WHY %d:\nQ: %s\nA: %s\nANALYSIS: %s\n\n" for every step, in order
RECURSIVE Chain(_)
Chain(steps) ==
    IF steps = <<>> THEN <<>>
    ELSE LET s == Head(steps) IN
         <<"WHY ">> \o NatChars(s.Level) \o <<":\nQ: ">> \o s.Question
            \o <<"\nA: ">> \o s.Answer \o <<"\nANALYSIS: ">> \o s.Analysis
            \o <<"\n\n">> \o Chain(Tail(steps))

BuildRootCausePrompt(steps) == <<RootCauseTemplate>> \o Chain(steps)

\* "- %s\n" for every step's analysis, in order
RECURSIVE Bullets(_)
Bullets(steps) ==
    IF steps = <<>> THEN <<>>
    ELSE <<"- ">> \o Head(steps).Analysis \o <<"\n">> \o Bullets(Tail(steps))

BuildSolutionPrompt(rc, steps) ==
    <<SolutionTemplate>> \o rc.RootCause \o <<"|">> \o Bullets(steps)

BuildReframePrompt(original, rc) ==
    <<ReframeTemplate>> \o original \o <<"|">> \o rc.RootCause

(***************************************************************************)
(* Inputs and environment                                                  *)
(***************************************************************************)
MaxTemperature == 1

SessionIDs == {"", "s1"}

Questions == {<<>>, <<"q">>}

\* what a back end may answer to a prompt that asks for a structured record
OutProse == <<"o", "k">>

OutWrapped == <<"x", "{", "\"", "r", "o", "o", "t", "_", "c", "a", "u", "s", "e", "\"", ":", "\"", "r", "\"", "}", "y">>

OutNumber == <<"{", "\"", "r", "o", "o", "t", "_", "c", "a", "u", "s", "e", "\"", ":", "1", "}">>

OutOwner == <<"{", "\"", "r", "o", "o", "t", "_", "c", "a", "u", "s", "e", "\"", ":", "\"", "r", "\"", ",", "\"", "o", "w", "n", "e", "r", "\"", ":", "1", "}">>

OutGreedy == <<"{", "{", "\"", "r", "o", "o", "t", "_", "c", "a", "u", "s", "e", "\"", ":", "\"", "r", "\"", "}">>

Outputs == {OutProse, OutWrapped, OutNumber, OutOwner, OutGreedy}

\* the text of the n-th answer to a free-text prompt: the orchestrator only
\* copies these texts, so each is a name for the call that produced it
Tok(n) == <<"t">> \o NatChars(n)

Replies(prompt, n) ==
    IF Head(prompt) \in {RootCauseTemplate, SolutionTemplate, ReframeTemplate}
    THEN Outputs
    ELSE {Tok(n)}

\* the requests a direct caller of Engine.Generate makes
Requests ==
    [Mode        : {ModeReasoning, ModeAnalysis, ModeDiagnosis, ModePlanning,
                    ModeDefault, "", "creative"},
     Prompt      : {<<>>, <<"p">>},
     Temperature : 0..MaxTemperature,
     MaxTokens   : {0, 1, 2048}]

(***************************************************************************)
(* Orchestrator (chat/orchestrator.go)                                     *)
(***************************************************************************)
NumWhys == 5

ZeroSession ==
    [SessionID |-> "", Steps |-> <<>>,
     RootCause |-> ZeroValue(RootCauseResult),
     Solution  |-> ZeroValue(SolutionResult),
     Reframed  |-> ZeroValue(ReframedQuestion)]

\* session := &FiveWhySession{SessionID: sessionID, Steps: []FiveWhyStep{}}
NewSession(sid) == [ZeroSession EXCEPT !.SessionID = sid]

\* (variants of the loop test: one iteration short, one too many)
LoopContinues_Short(k) == k < NumWhys

LoopContinues_Long(k) == k <= NumWhys + 1

\* for i := 1; i <= 5; i++
LoopContinues(k) == k <= NumWhys

\* (a variant that carries on after an error)
Proceed_Ignoring(err, next) == next

\* if err != nil { return nil, err }: where the run goes after a mandatory call
Proceed(err, next) == IF err # "" THEN "done" ELSE next

\* (a variant that gives up when a write fails)
Discard_Aborting(err, next) == IF err # "" THEN "done" ELSE next

\* _ = o.vector.Store(...): where the run goes after a best-effort write
Discard(err, next) == next

\* return nil, err
Failure(sess, err) == [has |-> FALSE, session |-> ZeroSession, err |-> err]

\* return session, nil
Success(sess) == [has |-> TRUE, session |-> sess, err |-> ""]

NotReturned == [has |-> FALSE, session |-> ZeroSession, err |-> ""]

\* the three documents RunFiveWhy stores
QuestionDoc(sid, question) ==
    [ID |-> sid, Content |-> question, Vector |-> NoVector,
     Meta |-> [type |-> "question"]]

RootCauseDoc(sid, rc) ==
    [ID |-> sid \o "_rca", Content |-> rc.RootCause, Vector |-> NoVector,
     Meta |-> [type |-> "root_cause"]]

SolutionDoc(sid, text) ==
    [ID |-> sid \o "_solution", Content |-> text, Vector |-> NoVector,
     Meta |-> [type |-> "solution"]]

\* llm.Request{Mode: mode, Prompt: prompt}
Req(mode, prompt) ==
    [Mode |-> mode, Prompt |-> prompt, Temperature |-> 0, MaxTokens |-> 0]

Gen(mode, err) == [op |-> "gen", what |-> mode, err |-> err]

Parse(what, err) == [op |-> "parse", what |-> what, err |-> err]

Stored(id, err) == [op |-> "store", what |-> id, err |-> err]

\* the generation calls made so far, and the ordinal of the next one
Calls == SelectSeq(trace, LAMBDA e : e.op = "gen")

NextCall == Len(Calls) + 1

Running == pc \notin {"idle", "done"}

(***************************************************************************)
(* State machine                                                           *)
(***************************************************************************)
Constructed ==
    /\ providers = <<>>
    /\ modelMap = NewModelMap
    /\ mgr = FALSE
    /\ kv = <<>>
    /\ vstore = <<>>
    /\ pc = "idle"
    /\ cancelled = FALSE
    /\ sessionID = ""
    /\ userQuestion = <<>>
    /\ currentQuestion = <<>>
    /\ i = 0
    /\ answer = <<>>
    /\ session = ZeroSession
    /\ rootCause = ZeroValue(RootCauseResult)
    /\ solText = <<>>
    /\ ret = NotReturned
    /\ trace = <<>>
    /\ lastGen = <<>>

\* no function applied yet, no call of the memory engine in progress
NoInput == [mode |-> "", text |-> <<>>]

NoOutput == [fn |-> "", val |-> <<>>]

Callers == {"a", "b"}

\* an entry of the key/value store as a reader finds it; NoEntry: no value
NoEntry == [val |-> <<>>, ttl |-> 0]

NoResult == [err |-> "", has |-> FALSE, val |-> <<>>]

\* what the pipeline of a run has produced: the root cause, the solution text
NoTexts == [rc |-> <<>>, sol |-> <<>>]

\* a frame: the call, its arguments, where it stands, what it read (data;
\* rows, the number of rows of the table it searched), what its pipeline
\* produced (made),
\* the store accesses it made (ops) and what it returned (ret); prior and
\* after record the entry under the key just before and after its write
IdleFrame ==
    [op |-> "", at |-> "idle", calls |-> 0, sid |-> "", role |-> <<>>,
     content |-> <<>>, limit |-> 0, rows |-> 0, data |-> <<>>, made |-> NoTexts,
     prior |-> NoEntry,
     after |-> NoEntry, ops |-> <<>>, ret |-> NoResult, ideal |-> NoResult]

Init ==
    /\ Constructed
    /\ input = NoInput
    /\ output = NoOutput
    /\ frames = [c \in Callers |-> IdleFrame]

engineVars == <<providers, modelMap, mgr>>

callVars == <<input, output, frames>>

storeVars == <<kv, vstore>>

runVars == <<pc, cancelled, sessionID, userQuestion, currentQuestion, i,
             answer, session, rootCause, solText, ret, trace>>

\* NewManager: a fresh engine with the configured stub registered
NewManager(kind) ==
    /\ pc = "idle"
    /\ ~mgr
    /\ DOMAIN providers = {}
    /\ providers' = Register(providers, [kind |-> kind, name |-> "primary"])
    /\ mgr' = TRUE
    /\ UNCHANGED <<callVars, modelMap, storeVars, runVars, lastGen>>

\* Engine.RegisterProvider(p)
RegisterProvider(p) ==
    /\ pc = "idle"
    /\ providers' = Register(providers, p)
    /\ UNCHANGED <<callVars, modelMap, mgr, storeVars, runVars, lastGen>>

\* (a variant that records the model resolved for the mode in the table)
EngineCall_Caching(req, ctxDone) ==
    /\ pc = "idle"
    /\ \E out \in Outcomes(providers, modelMap, req, ctxDone, {Tok(0)}) :
          lastGen' = <<EngineGenerate(providers, modelMap, req, out)>>
    /\ modelMap' = [m \in DOMAIN modelMap \cup {EffectiveMode(req.Mode)} |->
                       IF m = EffectiveMode(req.Mode)
                       THEN ResolveModel(modelMap, m) ELSE modelMap[m]]
    /\ UNCHANGED <<callVars, providers, mgr, storeVars, runVars>>

\* a direct call of Engine.Generate(ctx, req), ctx done or not
EngineCall(req, ctxDone) ==
    /\ pc = "idle"
    /\ \E out \in Outcomes(providers, modelMap, req, ctxDone, {Tok(0)}) :
          lastGen' = <<EngineGenerate(providers, modelMap, req, out)>>
    /\ UNCHANGED <<callVars, engineVars, storeVars, runVars>>

\* the caller's context is cancelled while the run is in progress
Cancel ==
    /\ Running
    /\ ~cancelled
    /\ cancelled' = TRUE
    /\ UNCHANGED <<callVars, engineVars, storeVars, lastGen, pc, sessionID, userQuestion,
                   currentQuestion, i, answer, session, rootCause, solText,
                   ret, trace>>

\* the outcomes of the INSERT of PgVectorStore.Store, where it is reached
DbOutcomes(doc) ==
    IF doc.ID = "" \/ doc.Vector.dim = 0 THEN {TRUE} ELSE BOOLEAN

\* what one call of o.llm.Generate(ctx, req) can come to: the back end's
\* answer, and whether the key/value store takes the memory hook's write
GenResults(req) ==
    {ManagerGenerate(providers, modelMap, kv, vstore, req, out, redisOk, TRUE) :
        out \in Outcomes(providers, modelMap, req, cancelled,
                         Replies(req.Prompt, NextCall)),
        redisOk \in BOOLEAN}

Effects(r) ==
    /\ kv' = r.kv
    /\ vstore' = r.vs
    /\ lastGen' = <<r.gen>>

\* RunFiveWhy is called: the question check and the new session
StartRun(sid, question) ==
    /\ pc = "idle"
    /\ mgr
    /\ sessionID' = sid
    /\ userQuestion' = question
    /\ LET err == IF question = <<>> THEN "empty question" ELSE "" IN
       /\ pc' = Proceed(err, "why")
       /\ ret' = IF pc' = "done" THEN Failure(ZeroSession, err) ELSE ret
       /\ session' = IF pc' = "done" THEN session ELSE NewSession(sid)
    /\ currentQuestion' = question
    /\ i' = 1
    /\ UNCHANGED <<callVars, engineVars, storeVars, lastGen, cancelled, answer,
                   rootCause, solText, trace>>

\* loop body, first call: the answer to the current why
WhyGen ==
    /\ pc = "why"
    /\ \E r \in GenResults(Req(ModeReasoning,
                               BuildFiveWhyPrompt(i, currentQuestion))) :
          /\ Effects(r)
          /\ trace' = Append(trace, Gen(ModeReasoning, r.err))
          /\ pc' = Proceed(r.err, "eval")
          /\ ret' = IF pc' = "done" THEN Failure(session, r.err) ELSE ret
          /\ answer' = r.resp.Text
    /\ UNCHANGED <<callVars, engineVars, cancelled, sessionID, userQuestion,
                   currentQuestion, i, session, rootCause, solText>>

\* loop body, second call: the evaluation, then the step is appended
EvalGen ==
    /\ pc = "eval"
    /\ \E r \in GenResults(Req(ModeAnalysis,
                               BuildEvaluationPrompt(currentQuestion, answer))) :
          /\ Effects(r)
          /\ trace' = Append(trace, Gen(ModeAnalysis, r.err))
          /\ pc' = Proceed(r.err, "next")
          /\ ret' = IF pc' = "done" THEN Failure(session, r.err) ELSE ret
          /\ session' =
                IF pc' = "done" THEN session
                ELSE [session EXCEPT !.Steps =
                        Append(@, [Level    |-> i,
                                   Question |-> currentQuestion,
                                   Answer   |-> answer,
                                   Analysis |-> r.resp.Text])]
    /\ UNCHANGED <<callVars, engineVars, cancelled, sessionID, userQuestion,
                   currentQuestion, i, answer, rootCause, solText>>

\* (a variant that keeps asking the question it already had)
NextGen_Stale ==
    /\ pc = "next"
    /\ \E r \in GenResults(Req(ModeReasoning, BuildNextWhyPrompt(answer))) :
          /\ Effects(r)
          /\ trace' = Append(trace, Gen(ModeReasoning, r.err))
          /\ pc' = Proceed(r.err, IF LoopContinues(i + 1) THEN "why" ELSE "rca")
          /\ ret' = IF pc' = "done" THEN Failure(session, r.err) ELSE ret
          /\ currentQuestion' = currentQuestion
          /\ i' = IF pc' = "done" THEN i ELSE i + 1
    /\ UNCHANGED <<callVars, engineVars, cancelled, sessionID, userQuestion, answer,
                   session, rootCause, solText>>

\* loop body, third call: the next why; then i++ and the loop test
NextGen ==
    /\ pc = "next"
    /\ \E r \in GenResults(Req(ModeReasoning, BuildNextWhyPrompt(answer))) :
          /\ Effects(r)
          /\ trace' = Append(trace, Gen(ModeReasoning, r.err))
          /\ pc' = Proceed(r.err, IF LoopContinues(i + 1) THEN "why" ELSE "rca")
          /\ ret' = IF pc' = "done" THEN Failure(session, r.err) ELSE ret
          /\ currentQuestion' = IF pc' = "done" THEN currentQuestion ELSE r.resp.Text
          /\ i' = IF pc' = "done" THEN i ELSE i + 1
    /\ UNCHANGED <<callVars, engineVars, cancelled, sessionID, userQuestion, answer,
                   session, rootCause, solText>>

\* a generation call followed by the parse of its text: the position, the
\* return value and the history afterwards
GenThenParse(r, mode, what, p, next) ==
    LET parsed == Proceed(r.err, "parse") # "done" IN
    /\ Effects(r)
    /\ trace' = IF parsed
                THEN trace \o <<Gen(mode, r.err), Parse(what, p.err)>>
                ELSE Append(trace, Gen(mode, r.err))
    /\ pc' = IF parsed THEN Proceed(p.err, next) ELSE "done"
    /\ ret' = IF pc' = "done"
              THEN Failure(session, IF parsed THEN p.err ELSE r.err)
              ELSE ret

\* root-cause extraction
RootCauseGen ==
    /\ pc = "rca"
    /\ \E r \in GenResults(Req(ModeDiagnosis, BuildRootCausePrompt(session.Steps))) :
          \E p \in {ParseRootCause(r.resp.Text)} :
          /\ GenThenParse(r, ModeDiagnosis, "root_cause", p, "sol")
          /\ rootCause' = IF pc' = "done" THEN rootCause ELSE p.out
          /\ session' = IF pc' = "done" THEN session
                        ELSE [session EXCEPT !.RootCause = p.out]
    /\ UNCHANGED <<callVars, engineVars, cancelled, sessionID, userQuestion,
                   currentQuestion, i, answer, solText>>

\* solution synthesis
SolutionGen ==
    /\ pc = "sol"
    /\ \E r \in GenResults(Req(ModePlanning,
                               BuildSolutionPrompt(rootCause, session.Steps))) :
          \E p \in {ParseSolution(r.resp.Text)} :
          /\ GenThenParse(r, ModePlanning, "solution", p, "reframe")
          /\ solText' = IF pc' = "done" THEN solText ELSE r.resp.Text
          /\ session' = IF pc' = "done" THEN session
                        ELSE [session EXCEPT !.Solution = p.out]
    /\ UNCHANGED <<callVars, engineVars, cancelled, sessionID, userQuestion,
                   currentQuestion, i, answer, rootCause>>

\* question reframing
ReframeGen ==
    /\ pc = "reframe"
    /\ \E r \in GenResults(Req(ModeReasoning,
                               BuildReframePrompt(userQuestion, rootCause))) :
          \E p \in {ParseReframe(r.resp.Text)} :
          /\ GenThenParse(r, ModeReasoning, "reframe", p, "store_q")
          /\ session' = IF pc' = "done" THEN session
                        ELSE [session EXCEPT !.Reframed = p.out]
    /\ UNCHANGED <<callVars, engineVars, cancelled, sessionID, userQuestion,
                   currentQuestion, i, answer, rootCause, solText>>

\* one of the three best-effort writes; after the last, return session, nil
StoreDoc(at, doc, next) ==
    /\ pc = at
    /\ \E dbOk \in DbOutcomes(doc) :
          LET s  == PgStore(vstore, doc, dbOk)
              to == Discard(s.err, next)
          IN /\ vstore' = s.store
             /\ trace' = Append(trace, Stored(doc.ID, s.err))
             /\ pc' = IF to = "return" THEN "done" ELSE to
             /\ ret' = IF to = "return" THEN Success(session)
                       ELSE IF to = "done" THEN Failure(session, s.err)
                       ELSE ret
    /\ UNCHANGED <<callVars, engineVars, kv, lastGen, cancelled, sessionID, userQuestion,
                   currentQuestion, i, answer, session, rootCause, solText>>

StoreQuestion == StoreDoc("store_q", QuestionDoc(sessionID, userQuestion), "store_rca")

StoreRootCause == StoreDoc("store_rca", RootCauseDoc(sessionID, rootCause), "store_sol")

StoreSolution == StoreDoc("store_sol", SolutionDoc(sessionID, solText), "return")

Next ==
    \/ \E k \in StubKinds : NewManager(k)
    \/ \E p \in Backends : RegisterProvider(p)
    \/ \E sid \in SessionIDs, q \in Questions : StartRun(sid, q)
    \/ Cancel
    \/ WhyGen
    \/ EvalGen
    \/ NextGen
    \/ RootCauseGen
    \/ SolutionGen
    \/ ReframeGen
    \/ StoreQuestion
    \/ StoreRootCause
    \/ StoreSolution

Spec == Init /\ [][Next]_vars

\* the engine on its own: registration and direct calls of Generate
NextEngine ==
    \/ \E k \in StubKinds : NewManager(k)
    \/ \E p \in Backends : RegisterProvider(p)
    \/ \E req \in Requests, ctxDone \in BOOLEAN : EngineCall(req, ctxDone)

SpecEngine == Init /\ [][NextEngine]_vars

(***************************************************************************)
(* The functions on their own: the arguments are drawn at the start, and   *)
(* each action applies one function to them.                               *)
(***************************************************************************)
AllModes ==
    {ModeReasoning, ModeAnalysis, ModeDiagnosis, ModePlanning, ModeDefault,
     "", "creative"}

\* a text of n characters, all c
Fill(n, c) == [k \in 1..n |-> c]

\* the longest text scored
MaxLen == 1502

\* lengths around each threshold of EstimateConfidence
Lengths ==
    {0, 1, 50, 299, 300, 301, 302, 799, 800, 801, 802, 1499, 1500, 1501, MaxLen}

SizedTexts == {Fill(n, c) : n \in Lengths, c \in {"a", "{"}}

InitConfidence ==
    /\ Constructed
    /\ input \in [mode : AllModes, text : SizedTexts]
    /\ output = NoOutput
    /\ frames = [c \in Callers |-> IdleFrame]

\* p.EstimateConfidence(mode, text)
Estimate ==
    /\ output' = [fn  |-> "EstimateConfidence",
                  val |-> EstimateConfidence(input.mode, input.text)]
    /\ UNCHANGED <<engineVars, storeVars, runVars, lastGen, input, frames>>

NextConfidence == Estimate

SpecConfidence == InitConfidence /\ [][NextConfidence]_vars

\* the longest text over the alphabet of brackets handed to the parsers
MaxText == 4

Alphabet == {"{", "}", " ", "x"}

RECURSIVE TextsUpTo(_)
TextsUpTo(n) ==
    IF n = 0 THEN {<<>>}
    ELSE LET shorter == TextsUpTo(n - 1) IN
         shorter \cup {Append(s, c) : s \in shorter, c \in Alphabet}

ParseTexts == TextsUpTo(MaxText) \cup Outputs

InitParse ==
    /\ Constructed
    /\ input \in [mode : {ModeDefault}, text : ParseTexts]
    /\ output = NoOutput
    /\ frames = [c \in Callers |-> IdleFrame]

Applied(fn, val) ==
    /\ output' = [fn |-> fn, val |-> val]
    /\ UNCHANGED <<engineVars, storeVars, runVars, lastGen, input, frames>>

\* extractJSON(raw)
ExtractCall == Applied("extractJSON", extractJSON(input.text))

\* b.ParseRootCause(raw, &out)
ParseRootCauseCall == Applied("ParseRootCause", ParseRootCause(input.text))

\* b.ParseSolution(raw, &out)
ParseSolutionCall == Applied("ParseSolution", ParseSolution(input.text))

\* b.ParseReframe(raw, &out)
ParseReframeCall == Applied("ParseReframe", ParseReframe(input.text))

NextParse ==
    \/ ExtractCall
    \/ ParseRootCauseCall
    \/ ParseSolutionCall
    \/ ParseReframeCall

SpecParse == InitParse /\ [][NextParse]_vars

(***************************************************************************)
(* The registry on its own: every registration is logged, in order.        *)
(***************************************************************************)
\* the longest sequence of registrations followed
MaxRegistrations == 4

InitRegistry ==
    /\ Constructed
    /\ input = NoInput
    /\ output = [fn |-> "RegisterProvider", val |-> <<>>]
    /\ frames = [c \in Callers |-> IdleFrame]

Logged(p) ==
    /\ Len(output.val) < MaxRegistrations
    /\ output' = [fn |-> "RegisterProvider", val |-> Append(output.val, p)]
    /\ UNCHANGED <<modelMap, storeVars, runVars, lastGen, input, frames>>

\* NewManager on a fresh engine: the configured stub is registered
NewManagerCall(kind) ==
    /\ ~mgr
    /\ DOMAIN providers = {}
    /\ providers' = Register(providers, [kind |-> kind, name |-> "primary"])
    /\ mgr' = TRUE
    /\ Logged([kind |-> kind, name |-> "primary"])

\* e.RegisterProvider(p)
RegisterCall(p) ==
    /\ providers' = Register(providers, p)
    /\ mgr' = mgr
    /\ Logged(p)

NextRegistry ==
    \/ \E k \in StubKinds : NewManagerCall(k)
    \/ \E p \in Backends : RegisterCall(p)

SpecRegistry == InitRegistry /\ [][NextRegistry]_vars

(***************************************************************************)
(* MemoryEngine, session memory (chat/handler.go).  A SessionMemory is     *)
(* [SessionID, Messages], a MemoryMessage [Role, Content]; Timestamp and   *)
(* UpdatedAt, wall-clock readings, are left out.  Texts are valid UTF-8,   *)
(* as the request bodies decoded by encoding/json and the replies built    *)
(* from them are.                                                          *)
(***************************************************************************)
KeySessionID == <<"s", "e", "s", "s", "i", "o", "n", "_", "i", "d">>

KeyMessages == <<"m", "e", "s", "s", "a", "g", "e", "s">>

KeyRole == <<"r", "o", "l", "e">>

KeyContent == <<"c", "o", "n", "t", "e", "n", "t">>

\* the characters of a session id
Chars(sid) ==
    CASE sid = "s1" -> <<"s", "1">>
      [] OTHER      -> <<>>

ZeroSessionMemory == [SessionID |-> <<>>, Messages |-> <<>>]

\* json.Marshal of a string: quoted, the quote and the backslash escaped
RECURSIVE Escape(_)
Escape(s) ==
    IF s = <<>> THEN <<>>
    ELSE IF Head(s) \in {"\"", "\\"} THEN <<"\\", Head(s)>> \o Escape(Tail(s))
    ELSE <<Head(s)>> \o Escape(Tail(s))

EncodeString(s) == <<"\"">> \o Escape(s) \o <<"\"">>

EncodeMessage(m) ==
    <<"{">> \o EncodeString(KeyRole) \o <<":">> \o EncodeString(m.Role)
        \o <<",">> \o EncodeString(KeyContent) \o <<":">> \o EncodeString(m.Content)
        \o <<"}">>

RECURSIVE EncodeMessages(_)
EncodeMessages(ms) ==
    IF ms = <<>> THEN <<>>
    ELSE IF Len(ms) = 1 THEN EncodeMessage(Head(ms))
    ELSE EncodeMessage(Head(ms)) \o <<",">> \o EncodeMessages(Tail(ms))

\* json.Marshal(session)
MarshalSession(s) ==
    <<"{">> \o EncodeString(KeySessionID) \o <<":">> \o EncodeString(s.SessionID)
        \o <<",">> \o EncodeString(KeyMessages) \o <<":", "[">>
        \o EncodeMessages(s.Messages) \o <<"]", "}">>

\* the value of the last member of mem under key that is of the kind;
\* none: [ok |-> FALSE]
RECURSIVE MemberOfKind(_, _, _, _)
MemberOfKind(mem, key, kind, sofar) ==
    IF mem = <<>> THEN sofar
    ELSE MemberOfKind(Tail(mem), key, kind,
                      IF Head(mem).key = key /\ Head(mem).val.kind = kind
                      THEN [ok |-> TRUE, val |-> Head(mem).val]
                      ELSE sofar)

Absent == [ok |-> FALSE, val |-> StrVal(<<>>)]

TextOf(mem, key, default) ==
    LET v == MemberOfKind(mem, key, "s", Absent) IN
    IF v.ok THEN v.val.str ELSE default

\* a list element decoded into a MemoryMessage
DecodeMessage(v) ==
    IF v.kind # "o" THEN [Role |-> <<>>, Content |-> <<>>]
    ELSE [Role |-> TextOf(v.mem, KeyRole, <<>>),
          Content |-> TextOf(v.mem, KeyContent, <<>>)]

\* some member under a key of the struct holds a value the field cannot take
Mistyped(v) ==
    \/ v.kind # "o"
    \/ \E m \in 1..Len(v.mem) :
          \/ v.mem[m].key = KeySessionID /\ v.mem[m].val.kind # "s"
          \/ v.mem[m].key = KeyMessages /\ v.mem[m].val.kind # "a"
          \/ /\ v.mem[m].key = KeyMessages
             /\ v.mem[m].val.kind = "a"
             /\ \E e \in 1..Len(v.mem[m].val.mem) :
                   LET el == v.mem[m].val.mem[e].val IN
                   \/ el.kind # "o"
                   \/ \E f \in 1..Len(el.mem) :
                         /\ el.mem[f].key \in {KeyRole, KeyContent}
                         /\ el.mem[f].val.kind # "s"

\* json.Unmarshal([]byte(data), &session): [err, session].  Text that is not
\* one JSON value leaves session untouched; a member the field cannot take
\* is reported and skipped, the others are stored.
UnmarshalSession(data, into) ==
    LET v == ParseValue(data, SkipWS(data, 1)) IN
    IF ~v.ok \/ SkipWS(data, v.next) # Len(data) + 1
    THEN [err |-> "json: invalid input", session |-> into]
    ELSE IF v.val.kind # "o"
    THEN [err |-> "json: cannot unmarshal value into field", session |-> into]
    ELSE LET msgs == MemberOfKind(v.val.mem, KeyMessages, "a", Absent) IN
         [err     |-> IF Mistyped(v.val)
                      THEN "json: cannot unmarshal value into field" ELSE "",
          session |-> [SessionID |-> TextOf(v.val.mem, KeySessionID, into.SessionID),
                       Messages  |-> IF msgs.ok
                                     THEN [e \in 1..Len(msgs.val.mem) |->
                                             DecodeMessage(msgs.val.mem[e].val)]
                                     ELSE into.Messages]]

SessionKey(sid) == "session:" \o sid

\* the expiry AppendSession writes with, in minutes
SessionMinutes == 24 * 60

\* r.Get(ctx, key): [err, data]; nothing under the key is redis.Nil
RedisGet(store, key, ok) ==
    IF ~ok THEN [err |-> "read failure", data |-> <<>>]
    ELSE IF key \notin DOMAIN store THEN [err |-> "redis: nil", data |-> <<>>]
    ELSE [err |-> "", data |-> store[key].val]

Entry(store, key) == IF key \in DOMAIN store THEN store[key] ELSE NoEntry

\* (a variant that puts the new message first)
AppendMessage_Prepend(sess, sid, role, content) ==
    [SessionID |-> Chars(sid),
     Messages  |-> <<[Role |-> role, Content |-> content]>> \o sess.Messages]

\* AppendSession: session.SessionID = sessionID; append(session.Messages, msg)
AppendMessage(sess, sid, role, content) ==
    [SessionID |-> Chars(sid),
     Messages  |-> Append(sess.Messages, [Role |-> role, Content |-> content])]

\* AppendSession: the session as loaded from what was read
LoadSession(data) ==
    IF data # <<>> THEN UnmarshalSession(data, ZeroSessionMemory).session
    ELSE ZeroSessionMemory

\* (a variant that reports the failure of the write)
AppendResult_Strict(sid, writeErr) ==
    IF sid = "" THEN "missing session id" ELSE writeErr

\* AppendSession: the error returned
AppendResult(sid, writeErr) ==
    IF sid = "" THEN "missing session id" ELSE ""

\* (a variant that returns an empty session for an empty value)
GetSessionResult_Empty(get) ==
    IF get.err # "" THEN [err |-> "session not found", has |-> FALSE, val |-> <<>>]
    ELSE LET u == UnmarshalSession(get.data, ZeroSessionMemory) IN
         IF get.data # <<>> /\ u.err # ""
         THEN [err |-> u.err, has |-> FALSE, val |-> <<>>]
         ELSE [err |-> "", has |-> TRUE, val |-> u.session]

\* GetSession: what it returns for what the read returned
GetSessionResult(get) ==
    IF get.err # "" \/ get.data = <<>>
    THEN [err |-> "session not found", has |-> FALSE, val |-> <<>>]
    ELSE LET u == UnmarshalSession(get.data, ZeroSessionMemory) IN
         IF u.err # "" THEN [err |-> u.err, has |-> FALSE, val |-> <<>>]
         ELSE [err |-> "", has |-> TRUE, val |-> u.session]

\* a store access as a frame records it
Access(what, key, err) == [op |-> what, key |-> key, err |-> err]

(***************************************************************************)
(* Session memory under concurrent callers.  AppendSession reads the key   *)
(* in one step and writes it in another; callers interleave between the    *)
(* two.  Other clients of the store may write under the key as well.       *)
(***************************************************************************)
\* the calls followed, over all callers
MaxCalls == 3

UserRole == <<"u", "s", "e", "r">>

AssistantRole == <<"a", "s", "s", "i", "s", "t", "a", "n", "t">>

\* what each caller appends
MessageOf(c) ==
    IF c = "a" THEN [role |-> UserRole, content |-> <<"h", "i">>]
    ELSE [role |-> AssistantRole, content |-> <<"\"", "}", "\\">>]

\* what another client may leave under a session key: an empty value, text
\* that is not JSON
ForeignValues == {<<>>, <<"x">>}

RECURSIVE CallsOf(_)
CallsOf(cs) ==
    IF cs = {} THEN 0
    ELSE LET c == CHOOSE x \in cs : TRUE IN frames[c].calls + CallsOf(cs \ {c})

CanCall(c) == frames[c].at \in {"idle", "done"} /\ CallsOf(Callers) < MaxCalls

NewFrame(c, op, sid, role, content, limit) ==
    [IdleFrame EXCEPT !.op = op, !.calls = frames[c].calls, !.sid = sid,
                      !.role = role, !.content = content, !.limit = limit]

\* one more of the calls followed
Counted(f) == [f EXCEPT !.calls = @ + 1]

Returns(f, err, has, val) ==
    [f EXCEPT !.at = "done", !.ret = [err |-> err, has |-> has, val |-> val]]

\* AppendSession up to its read of the store
AppendSessionRead(c, sid, role, content, ok) ==
    /\ CanCall(c)
    /\ LET f == Counted(NewFrame(c, "AppendSession", sid, role, content, 0))
           g == RedisGet(kv, SessionKey(sid), ok)
       IN frames' = [frames EXCEPT ![c] =
              IF sid = ""
              THEN Returns(f, AppendResult(sid, ""), FALSE, <<>>)
              ELSE [f EXCEPT !.at = "set", !.data = g.data,
                             !.ops = <<Access("get", SessionKey(sid), g.err)>>]]
    /\ UNCHANGED <<engineVars, storeVars, runVars, lastGen, input, output>>

\* AppendSession from the decoding of what it read to its return
AppendSessionWrite(c, ok) ==
    /\ frames[c].op = "AppendSession"
    /\ frames[c].at = "set"
    /\ LET f    == frames[c]
           key  == SessionKey(f.sid)
           sess == AppendMessage(LoadSession(f.data), f.sid, f.role, f.content)
           b    == MarshalSession(sess)
           werr == IF ok THEN "" ELSE "write failure"
       IN /\ kv' = IF ok THEN RedisSet(kv, key, b, SessionMinutes) ELSE kv
          /\ frames' = [frames EXCEPT ![c] =
                Returns([f EXCEPT !.prior = Entry(kv, key),
                                  !.after = Entry(kv', key),
                                  !.ops = Append(f.ops, Access("set", key, werr))],
                        AppendResult(f.sid, werr), FALSE, <<>>)]
    /\ UNCHANGED <<engineVars, vstore, runVars, lastGen, input, output>>

\* GetSession
GetSessionCall(c, sid, ok) ==
    /\ CanCall(c)
    /\ LET f == Counted(NewFrame(c, "GetSession", sid, <<>>, <<>>, 0))
           g == RedisGet(kv, SessionKey(sid), ok)
           r == GetSessionResult(g)
       IN frames' = [frames EXCEPT ![c] =
              Returns([f EXCEPT !.data = g.data,
                                !.ops = <<Access("get", SessionKey(sid), g.err)>>],
                      r.err, r.has, r.val)]
    /\ UNCHANGED <<engineVars, storeVars, runVars, lastGen, input, output>>

\* another client of the store writes under a session key
ForeignSet(sid, val) ==
    /\ kv' = RedisSet(kv, SessionKey(sid), val, 0)
    /\ UNCHANGED <<engineVars, vstore, runVars, lastGen, callVars>>

NextSession ==
    \/ \E c \in Callers, sid \in SessionIDs, ok \in BOOLEAN :
          AppendSessionRead(c, sid, MessageOf(c).role, MessageOf(c).content, ok)
    \/ \E c \in Callers, ok \in BOOLEAN : AppendSessionWrite(c, ok)
    \/ \E c \in Callers, sid \in SessionIDs, ok \in BOOLEAN : GetSessionCall(c, sid, ok)
    \/ \E val \in ForeignValues : ForeignSet("s1", val)

SpecSession == Init /\ [][NextSession]_vars

(***************************************************************************)
(* MemoryEngine, long-term memory: StoreLongTerm and Recall over the       *)
(* vector table.                                                           *)
(***************************************************************************)
EmbedDim == 384

DefaultLimit == 5

\* Manager.Embed: [err, vec]; 384 components, the one at index i being
\* float32(len(text)) / float32(i+1)
Embed(text) ==
    IF text = <<>> THEN [err |-> "empty text", vec |-> NoVector]
    ELSE [err |-> "", vec |-> [dim |-> EmbedDim, num |-> Len(text)]]

\* the order of the L2 distances between embeddings: the vectors of the
\* table are multiples of (1, 1/2, .., 1/384), so two of them are as far
\* apart as their factors are
Distance(v, w) ==
    IF v.num >= w.num THEN v.num - w.num ELSE w.num - v.num

\* (a variant that takes a limit of 0 or less for no limit at all)
EffectiveLimit_Unlimited(limit) == IF limit <= 0 THEN 2 * DefaultLimit ELSE limit

\* PgVectorStore.Search: the LIMIT of the query
EffectiveLimit(limit) == IF limit <= 0 THEN DefaultLimit ELSE limit

\* the rows in ids, nearest to q first; rows equally far are listed in one
\* fixed order
RECURSIVE SortRows(_, _, _)
SortRows(store, ids, q) ==
    IF ids = {} THEN <<>>
    ELSE LET d == CHOOSE x \in ids : \A e \in ids :
                     Distance(store[x].Vector, q) <= Distance(store[e].Vector, q)
         IN <<d>> \o SortRows(store, ids \ {d}, q)

Min(a, b) == IF a <= b THEN a ELSE b

\* ORDER BY embedding <-> q LIMIT n: the sequences of ids the query may
\* return.  Which of the rows equally far make the cut is open.
NearestRows(store, ids, q, n) ==
    {SortRows(store, T, q) :
        T \in {S \in SUBSET ids :
                 /\ Cardinality(S) = Min(n, Cardinality(ids))
                 /\ \A d \in S, e \in ids \ S :
                       Distance(store[d].Vector, q) <= Distance(store[e].Vector, q)}}

\* the Document scanned from a row: id, content and metadata, no vector
RowDocument(store, d) ==
    [ID |-> d, Content |-> store[d].Content, Vector |-> NoVector,
     Meta |-> store[d].Meta]

\* PgVectorStore.Search: the results it can return, each [err, docs]
PgSearch(store, vector, limit, dbOk) ==
    IF vector.dim = 0 THEN {[err |-> "empty query vector", docs |-> <<>>]}
    ELSE IF ~dbOk THEN {[err |-> "search failure", docs |-> <<>>]}
    ELSE {[err  |-> "",
           docs |-> [k \in 1..Len(r) |-> RowDocument(store, r[k])]] :
             r \in NearestRows(store, DOMAIN store, vector, EffectiveLimit(limit))}

\* Recall: ctxStr, every document's content followed by a newline
RECURSIVE ContextOf(_)
ContextOf(docs) ==
    IF docs = <<>> THEN <<>>
    ELSE Head(docs).Content \o <<"\n">> \o ContextOf(Tail(docs))

\* (a variant that answers with an empty memory when the search fails)
RecallResult_Swallow(query, emb, found) ==
    IF query = <<>> THEN [err |-> "empty query", has |-> FALSE, val |-> <<>>]
    ELSE IF emb.err # "" THEN [err |-> emb.err, has |-> FALSE, val |-> <<>>]
    ELSE [err |-> "", has |-> TRUE,
          val |-> [Documents |-> found.docs, Context |-> ContextOf(found.docs)]]

\* Recall: what it returns, given the embedding and what the search returned
RecallResult(query, emb, found) ==
    IF query = <<>> THEN [err |-> "empty query", has |-> FALSE, val |-> <<>>]
    ELSE IF emb.err # "" THEN [err |-> emb.err, has |-> FALSE, val |-> <<>>]
    ELSE IF found.err # "" THEN [err |-> found.err, has |-> FALSE, val |-> <<>>]
    ELSE [err |-> "", has |-> TRUE,
          val |-> [Documents |-> found.docs, Context |-> ContextOf(found.docs)]]

\* the accesses Recall makes: none for an empty query, no search when the
\* embedding fails
RecallAccesses(query, emb, found) ==
    IF query = <<>> THEN <<>>
    ELSE IF emb.err # "" THEN <<Access("embed", "", emb.err)>>
    ELSE <<Access("embed", "", emb.err), Access("search", "", found.err)>>

\* the documents kept at most
MaxDocs == 6

\* generateMemoryID: the clock reading, formatted; n counts the readings
MemoryID(n) == "20060102150405.00000000" \o ToString(n)

Queries == {<<>>, <<"q">>}

Limits == {-3, 0, 1, MaxDocs + 1}

Contents == {<<>>, <<"m">>, <<"m", "m">>}

\* the one caller of the long-term memory
Reader == "a"

\* StoreLongTerm(ctx, content, meta)
StoreLongTermCall(c, content, dbOk) ==
    /\ Cardinality(DOMAIN vstore) < MaxDocs
    /\ frames[c].at \in {"idle", "done"}
    /\ LET f   == NewFrame(c, "StoreLongTerm", "", <<>>, content, 0)
           emb == Embed(content)
           doc == [ID |-> MemoryID(Cardinality(DOMAIN vstore) + 1),
                   Content |-> content, Vector |-> emb.vec,
                   Meta |-> [type |-> "memory"]]
           s   == PgStore(vstore, doc, dbOk)
       IN IF emb.err # ""
          THEN /\ vstore' = vstore
               /\ frames' = [frames EXCEPT ![c] =
                     Returns([f EXCEPT !.ops = <<Access("embed", "", emb.err)>>],
                             emb.err, FALSE, <<>>)]
          ELSE /\ vstore' = s.store
               /\ frames' = [frames EXCEPT ![c] =
                     Returns([f EXCEPT !.ops = <<Access("embed", "", ""),
                                                 Access("store", doc.ID, s.err)>>],
                             s.err, FALSE, <<>>)]
    /\ UNCHANGED <<engineVars, kv, runVars, lastGen, input, output>>

\* Recall(ctx, query, limit)
RecallCall(c, query, limit, dbOk) ==
    /\ frames[c].at \in {"idle", "done"}
    /\ LET f   == NewFrame(c, "Recall", "", <<>>, query, limit)
           emb == Embed(query)
       IN \E found \in PgSearch(vstore, emb.vec, limit, dbOk) :
             LET r == RecallResult(query, emb, found) IN
             frames' = [frames EXCEPT ![c] =
                 Returns([f EXCEPT !.rows = Cardinality(DOMAIN vstore),
                                   !.ops = RecallAccesses(query, emb, found)],
                         r.err, r.has, r.val)]
    /\ UNCHANGED <<engineVars, storeVars, runVars, lastGen, input, output>>

NextRecall ==
    \/ \E content \in Contents, dbOk \in BOOLEAN : StoreLongTermCall(Reader, content, dbOk)
    \/ \E query \in Queries, limit \in Limits, dbOk \in BOOLEAN :
          RecallCall(Reader, query, limit, dbOk)

SpecRecall == Init /\ [][NextRecall]_vars

(***************************************************************************)
(* MemoryEngine, hybrid retrieval: the transcript of the session followed  *)
(* by the semantic memory recalled for the query.                          *)
(***************************************************************************)
\* "\n--- Semantic Memory ---\n"
SemanticHeader == <<"\n", "--- Semantic Memory ---", "\n">>

\* (a variant that renders the newest message first)
RECURSIVE RoleLines_Newest(_)
RoleLines_Newest(msgs) ==
    IF msgs = <<>> THEN <<>>
    ELSE RoleLines_Newest(Tail(msgs))
            \o Head(msgs).Role \o <<":", " ">> \o Head(msgs).Content \o <<"\n">>

\* msg.Role + ": " + msg.Content + "\n" for every message, in order
RECURSIVE RoleLines(_)
RoleLines(msgs) ==
    IF msgs = <<>> THEN <<>>
    ELSE Head(msgs).Role \o <<":", " ">> \o Head(msgs).Content \o <<"\n">>
            \o RoleLines(Tail(msgs))

\* (a variant that leaves the header out)
SemanticSection_Bare(r) == IF r.err = "" THEN r.val.Context ELSE <<>>

\* HybridContext: what a Recall that returned r adds to the string
SemanticSection(r) ==
    IF r.err = "" THEN SemanticHeader \o r.val.Context ELSE <<>>

\* (a variant that returns the error of the Recall)
HybridContextResult_Strict(s, r) ==
    IF r.err # "" THEN [err |-> r.err, has |-> FALSE, val |-> <<>>]
    ELSE [err |-> "", has |-> TRUE,
          val |-> (IF s.has THEN RoleLines(s.val.Messages) ELSE <<>>)
                     \o SemanticSection(r)]

\* HybridContext: what it returns, s what GetSession returned and r what
\* Recall returned
HybridContextResult(s, r) ==
    [err |-> "", has |-> TRUE,
     val |-> (IF s.has THEN RoleLines(s.val.Messages) ELSE <<>>)
                \o SemanticSection(r)]

\* HybridContext(ctx, sessionID, query, limit)
HybridContextCall(c, sid, query, limit, getOk, dbOk) ==
    /\ frames[c].at \in {"idle", "done"}
    /\ \E g \in {RedisGet(kv, SessionKey(sid), getOk)} :
       \E s \in {GetSessionResult(g)} :
       \E found \in PgSearch(vstore, Embed(query).vec, limit, dbOk) :
          LET f == NewFrame(c, "HybridContext", sid, <<>>, query, limit)
              r == RecallResult(query, Embed(query), found)
              h == HybridContextResult(s, r)
          IN frames' = [frames EXCEPT ![c] =
                 Returns([f EXCEPT !.data = g.data,
                                   !.rows = Cardinality(DOMAIN vstore),
                                   !.ops = <<Access("get", SessionKey(sid), g.err)>>
                                              \o RecallAccesses(query, Embed(query), found)],
                         h.err, h.has, h.val)]
    /\ UNCHANGED <<engineVars, storeVars, runVars, lastGen, input, output>>

\* the memories kept at most beside a transcript
MaxMemories == 2

NextHybrid ==
    \/ \E ok \in BOOLEAN :
          AppendSessionRead(Reader, "s1",
                            IF frames[Reader].calls % 2 = 0
                            THEN UserRole ELSE AssistantRole,
                            MessageOf(Reader).content, ok)
    \/ \E ok \in BOOLEAN : AppendSessionWrite(Reader, ok)
    \/ \E val \in ForeignValues : ForeignSet("s1", val)
    \/ \E content \in Contents, dbOk \in BOOLEAN :
          /\ Cardinality(DOMAIN vstore) < MaxMemories
          /\ StoreLongTermCall(Reader, content, dbOk)
    \/ \E sid \in SessionIDs, query \in Queries, limit \in {0, 1},
          getOk \in BOOLEAN, dbOk \in BOOLEAN :
          HybridContextCall(Reader, sid, query, limit, getOk, dbOk)

SpecHybrid == Init /\ [][NextHybrid]_vars

(***************************************************************************)
(* MemoryEngine, compression: the transcript is summarised by the model    *)
(* and the summary kept as a document of the vector table.                 *)
(***************************************************************************)
\* "Summarize the following conversation into long-term semantic memory:\n"
SummaryTemplate == "[summarize]"

\* json.Marshal(session.Messages); a transcript AppendSession wrote has a
\* message
MarshalMessages(ms) == <<"[">> \o EncodeMessages(ms) \o <<"]">>

BuildSummaryPrompt(ms) == <<SummaryTemplate>> \o MarshalMessages(ms)

\* (a variant that stores the summary under the session id itself)
SummaryDoc_Plain(sid, text, vec) ==
    [ID |-> sid, Content |-> text, Vector |-> vec,
     Meta |-> [type |-> "session_summary", sessionID |-> sid]]

\* the document CompressSession stores
SummaryDoc(sid, text, vec) ==
    [ID |-> sid \o "_summary", Content |-> text, Vector |-> vec,
     Meta |-> [type |-> "session_summary", sessionID |-> sid]]

\* what the model may answer to the summary prompt: the stubs always
\* answer with a text, another back end may answer with none
SummaryReplies(provs) ==
    IF Lookup(provs, "primary").provider.kind \in StubKinds
    THEN {Tok(1)}
    ELSE {Tok(1), <<>>}

\* (a variant that carries on whatever the error)
Fails_Never(err) == FALSE

\* if err != nil { return "", err }
Fails(err) == err # ""

\* (a variant that returns the error of the Store)
CompressResult_Propagating(text, storeErr) ==
    IF storeErr # "" THEN [err |-> storeErr, has |-> FALSE, val |-> <<>>]
    ELSE [err |-> "", has |-> TRUE, val |-> text]

\* _ = m.vector.Store(...); return resp.Text, nil
CompressResult(text, storeErr) == [err |-> "", has |-> TRUE, val |-> text]

\* CompressSession(ctx, sessionID)
CompressSessionCall(c, sid, getOk, ctxDone) ==
    /\ mgr
    /\ frames[c].at \in {"idle", "done"}
    /\ \E g \in {RedisGet(kv, SessionKey(sid), getOk)} :
       \E s \in {GetSessionResult(g)} :
       \E req \in {Req(ModeAnalysis,
                       BuildSummaryPrompt(IF s.has THEN s.val.Messages ELSE <<>>))} :
          LET f   == [NewFrame(c, "CompressSession", sid, <<>>, <<>>, 0)
                         EXCEPT !.data = g.data]
              get == Access("get", SessionKey(sid), g.err)
          IN IF Fails(s.err)
             THEN /\ frames' = [frames EXCEPT ![c] =
                        Returns([f EXCEPT !.ops = <<get>>], s.err, FALSE, <<>>)]
                  /\ UNCHANGED <<storeVars, lastGen>>
             ELSE \E out \in Outcomes(providers, modelMap, req, ctxDone,
                                      SummaryReplies(providers)),
                     redisOk \in BOOLEAN, dbOk \in BOOLEAN :
                  \E r \in {ManagerGenerate(providers, modelMap, kv, vstore,
                                            req, out, redisOk, TRUE)} :
                     LET gen == Access("generate", req.Mode, r.err)
                         emb == Embed(r.resp.Text)
                         doc == SummaryDoc(sid, r.resp.Text, emb.vec)
                         st  == PgStore(r.vs, doc, dbOk)
                         h   == CompressResult(r.resp.Text, st.err)
                     IN /\ lastGen' = <<r.gen>>
                        /\ kv' = r.kv
                        /\ IF Fails(r.err)
                           THEN /\ vstore' = r.vs
                                /\ frames' = [frames EXCEPT ![c] =
                                      Returns([f EXCEPT !.ops = <<get, gen>>],
                                              r.err, FALSE, <<>>)]
                           ELSE /\ vstore' = st.store
                                /\ frames' = [frames EXCEPT ![c] =
                                      Returns([f EXCEPT
                                                 !.ops = <<get, gen,
                                                           Access("embed", "", emb.err),
                                                           Access("store", doc.ID, st.err)>>],
                                              h.err, h.has, h.val)]
    /\ UNCHANGED <<engineVars, runVars, input, output>>

NextCompress ==
    \/ \E k \in StubKinds : NewManager(k)
    \/ \E p \in Mocks : RegisterProvider(p)
    \/ \E ok \in BOOLEAN :
          AppendSessionRead(Reader, "s1", MessageOf(Reader).role,
                            MessageOf(Reader).content, ok)
    \/ \E ok \in BOOLEAN : AppendSessionWrite(Reader, ok)
    \/ \E val \in ForeignValues : ForeignSet("s1", val)
    \/ \E sid \in SessionIDs, getOk \in BOOLEAN, ctxDone \in BOOLEAN :
          CompressSessionCall(Reader, sid, getOk, ctxDone)

SpecCompress == Init /\ [][NextCompress]_vars

(***************************************************************************)
(* PgVectorStore on its own: a sequence of Store and Search calls.  The    *)
(* Store calls made are kept as a history, each with the error returned.   *)
(***************************************************************************)
\* the Store calls followed
MaxStores == 3

\* a vector Embed makes, and one whose components %f writes in full
EmbeddedVector == [dim |-> EmbedDim, num |-> 1]

ShortVector == [dim |-> 2, num |-> 3]

\* the documents a caller stores
StoredDocs ==
    {[ID |-> id, Content |-> <<"m">>, Vector |-> v, Meta |-> [type |-> "memory"]] :
        id \in {"", "d1", "d2"}, v \in {NoVector, ShortVector}}
    \cup {[ID |-> "d1", Content |-> <<"n">>, Vector |-> ShortVector,
           Meta |-> [type |-> "note"]],
          [ID |-> "d1", Content |-> <<"m">>, Vector |-> EmbeddedVector,
           Meta |-> [type |-> "memory"]]}

\* PgVectorStore.Store(ctx, doc)
VectorStoreCall(doc, dbOk) ==
    /\ Len(output.val) < MaxStores
    /\ LET s == PgStore(vstore, doc, dbOk) IN
       /\ vstore' = s.store
       /\ output' = [fn  |-> "Store",
                     val |-> Append(output.val, [doc |-> doc, err |-> s.err,
                                                 after |-> s.store])]
    /\ UNCHANGED <<engineVars, kv, runVars, lastGen, input, frames>>

\* PgVectorStore.Search(ctx, vector, limit)
VectorSearchCall(c, vector, limit, dbOk) ==
    /\ frames[c].at \in {"idle", "done"}
    /\ \E found \in PgSearch(vstore, vector, limit, dbOk) :
          frames' = [frames EXCEPT ![c] =
              Returns([NewFrame(c, "Search", "", <<>>, vector, limit) EXCEPT
                          !.rows = Cardinality(DOMAIN vstore),
                          !.ops = <<Access("search", "", found.err)>>],
                      found.err, found.err = "", found.docs)]
    /\ UNCHANGED <<engineVars, storeVars, runVars, lastGen, input, output>>

NextVector ==
    \/ \E doc \in StoredDocs : \E dbOk \in DbOutcomes(doc) : VectorStoreCall(doc, dbOk)
    \/ \E vector \in {NoVector, ShortVector}, limit \in {0, 1}, dbOk \in BOOLEAN :
          VectorSearchCall(Reader, vector, limit, dbOk)

SpecVector == Init /\ [][NextVector]_vars

(***************************************************************************)
(* Orchestrator, partial APIs: ExtractRootCause and ReframeQuestion, each  *)
(* one generation followed by the parse of its text.                       *)
(***************************************************************************)
\* the steps and the root causes a caller passes in
StepLists ==
    {<<>>, <<[Level |-> 1, Question |-> <<"q">>, Answer |-> <<"a">>,
              Analysis |-> <<"n">>]>>}

RootCauses ==
    {ZeroValue(RootCauseResult),
     [ZeroValue(RootCauseResult) EXCEPT !.RootCause = <<"r">>]}

\* the body both share: o.llm.Generate, then the parser into a fresh record
PartialCall(c, op, mode, prompt, what, schema, ctxDone) ==
    /\ mgr
    /\ frames[c].at \in {"idle", "done"}
    /\ \E req \in {Req(mode, prompt)} :
       \E out \in Outcomes(providers, modelMap, req, ctxDone, Replies(prompt, 1)),
          redisOk \in BOOLEAN :
       \E r \in {ManagerGenerate(providers, modelMap, kv, vstore, req, out,
                                 redisOk, TRUE)} :
       \E p \in {ParseInto(r.resp.Text, schema)} :
          LET f   == NewFrame(c, op, "", <<>>, prompt, 0)
              gen == Access("generate", mode, r.err)
          IN /\ Effects(r)
             /\ frames' = [frames EXCEPT ![c] =
                   IF r.err # ""
                   THEN Returns([f EXCEPT !.ops = <<gen>>], r.err, FALSE, <<>>)
                   ELSE IF p.err # ""
                   THEN Returns([f EXCEPT !.ops = <<gen, Access("parse", what, p.err)>>],
                                p.err, FALSE, <<>>)
                   ELSE Returns([f EXCEPT !.ops = <<gen, Access("parse", what, "")>>],
                                "", TRUE, p.out)]
    /\ UNCHANGED <<engineVars, runVars, input, output>>

\* ExtractRootCause(ctx, steps)
ExtractRootCauseCall(c, steps, ctxDone) ==
    PartialCall(c, "ExtractRootCause", ModeDiagnosis, BuildRootCausePrompt(steps),
                "root_cause", RootCauseResult, ctxDone)

\* ReframeQuestion(ctx, question, rc)
ReframeQuestionCall(c, question, rc, ctxDone) ==
    PartialCall(c, "ReframeQuestion", ModeReasoning, BuildReframePrompt(question, rc),
                "reframe", ReframedQuestion, ctxDone)

\* the other caller, who keeps a transcript in the session memory
Writer == "b"

NextPartial ==
    \/ NewManager("local")
    \/ RegisterProvider([kind |-> "mock", name |-> "primary"])
    \/ /\ SessionKey("s1") \notin DOMAIN kv
       /\ AppendSessionRead(Writer, "s1", MessageOf(Writer).role,
                            MessageOf(Writer).content, TRUE)
    \/ AppendSessionWrite(Writer, TRUE)
    \/ \E steps \in StepLists : ExtractRootCauseCall(Reader, steps, FALSE)
    \/ \E rc \in RootCauses : ReframeQuestionCall(Reader, <<"q">>, rc, TRUE)

SpecPartial == Init /\ [][NextPartial]_vars

(***************************************************************************)
(* Service (chat): Chat and FiveWhy.  The service is built with a memory   *)
(* engine, a vector store and a repository.  The repository is outside     *)
(* this code: a call of it succeeds or fails.  A frame's field ideal is    *)
(* what the call would have returned, from the same stores and with the    *)
(* same answers of the back end, had every AppendSession, SaveMessage,     *)
(* SaveFiveWhySession and Store of the service gone through.               *)
(***************************************************************************)
\* AppendSession from its call to its return, as the service runs it:
\* [kv, err, ops]
AppendOnce(kvs, sid, role, content, readOk, writeOk) ==
    IF sid = "" THEN [kv |-> kvs, err |-> AppendResult(sid, ""), ops |-> <<>>]
    ELSE LET key  == SessionKey(sid)
             got  == {RedisGet(kvs, key, readOk)}
             werr == IF writeOk THEN "" ELSE "write failure"
             done == {[kv  |-> IF writeOk
                               THEN RedisSet(kvs, key,
                                             MarshalSession(
                                                AppendMessage(LoadSession(g.data),
                                                              sid, role, content)),
                                             SessionMinutes)
                               ELSE kvs,
                       err |-> AppendResult(sid, werr),
                       ops |-> <<Access("get", key, g.err),
                                 Access("set", key, werr)>>] : g \in got}
         IN CHOOSE a \in done : TRUE

\* "Context:\n" + contextStr + "\nUser:\n" + message
ChatPrompt(contextStr, message) ==
    <<"Context:\n">> \o contextStr \o <<"\nUser:\n">> \o message

\* the text of the stub back ends: their placeholder line, then the prompt
Echo(prompt) == <<"[RESPONSE PLACEHOLDER]", "\n">> \o prompt

\* what the back end returns to req, failing or not
Picked(provs, mm, req, fails) ==
    CHOOSE o \in Outcomes(provs, mm, req, FALSE, {Echo(req.Prompt)}) :
        /\ (o.err # "") = fails
        /\ o.err = "" => o.Model = ResolveModel(mm, EffectiveMode(req.Mode))

\* which of the calls a service makes go through.  Each scenario fails one
\* of them.
AllOk ==
    [appendRead |-> TRUE, appendWrite |-> TRUE, get |-> TRUE, search |-> TRUE,
     redis |-> TRUE, replyRead |-> TRUE, replyWrite |-> TRUE, save |-> TRUE]

Failing(names) == {AllOk} \cup {[AllOk EXCEPT ![n] = FALSE] : n \in names}

Scenarios == Failing(DOMAIN AllOk)

\* the chats followed
MaxChats == 2

\* the scenario in which the best-effort collaborators of the service all
\* go through and everything else is as in fl
BestEffortOk(fl) ==
    [fl EXCEPT !.appendRead = TRUE, !.appendWrite = TRUE, !.replyRead = TRUE,
               !.replyWrite = TRUE, !.save = TRUE]

SaveError(ok) == IF ok THEN "" ELSE "save failure"

\* (a variant that reports the failure of the repository)
ChatResult_Strict(resp, appendErr, saveErr) ==
    IF saveErr # "" THEN [err |-> saveErr, has |-> FALSE, val |-> <<>>]
    ELSE [err |-> "", has |-> TRUE, val |-> resp]

\* _ = s.memory.AppendSession(...); _ = s.repo.SaveMessage(...);
\* return &resp, nil
ChatResult(resp, appendErr, saveErr) == [err |-> "", has |-> TRUE, val |-> resp]

\* Service.Chat for a message that is not empty: [ret, kv, vs, gen, ops]
ChatRun(provs, mm, kvs, vs, sid, message, fl, found, fails) ==
    CHOOSE run \in UNION UNION UNION UNION
      {{{{{IF r.err # ""
           THEN [ret |-> [err |-> r.err, has |-> FALSE, val |-> <<>>],
                 kv |-> r.kv, vs |-> r.vs, gen |-> r.gen,
                 ops |-> a.ops
                           \o <<Access("get", SessionKey(sid), get.err)>>
                           \o RecallAccesses(message, Embed(message), found)
                           \o <<Access("generate", req.Mode, r.err)>>]
           ELSE [ret |-> ChatResult(r.resp, b.err, SaveError(fl.save)),
                 kv |-> b.kv, vs |-> r.vs, gen |-> r.gen,
                 ops |-> a.ops
                           \o <<Access("get", SessionKey(sid), get.err)>>
                           \o RecallAccesses(message, Embed(message), found)
                           \o <<Access("generate", req.Mode, r.err)>>
                           \o b.ops
                           \o <<Access("save", sid, SaveError(fl.save))>>] :
              b \in {AppendOnce(r.kv, sid, AssistantRole, r.resp.Text,
                                fl.replyRead, fl.replyWrite)}} :
             r \in {ManagerGenerate(provs, mm, a.kv, vs, req,
                                    Picked(provs, mm, req, fails),
                                    fl.redis, TRUE)}} :
            req \in {Req(ModeReasoning,
                         ChatPrompt(HybridContextResult(
                                       GetSessionResult(get),
                                       RecallResult(message, Embed(message),
                                                    found)).val,
                                    message))}} :
           get \in {RedisGet(a.kv, SessionKey(sid), fl.get)}} :
          a \in {AppendOnce(kvs, sid, UserRole, message,
                            fl.appendRead, fl.appendWrite)}} : TRUE

\* Service.Chat(ctx, sessionID, userID, message)
ChatCall(c, sid, message, fl, fails) ==
    /\ pc = "idle"
    /\ mgr
    /\ frames[c].at \in {"idle", "done"}
    /\ frames[c].calls < MaxChats
    /\ fails => Lookup(providers, "primary").provider.kind = "mock"
    /\ LET f == Counted(NewFrame(c, "Chat", sid, <<>>, message, DefaultLimit)) IN
       IF message = <<>>
       THEN /\ frames' = [frames EXCEPT ![c] =
                  [Returns(f, "empty message", FALSE, <<>>) EXCEPT
                      !.ideal = [err |-> "empty message", has |-> FALSE, val |-> <<>>]]]
            /\ UNCHANGED <<storeVars, lastGen>>
       ELSE \E found \in PgSearch(vstore, Embed(message).vec, DefaultLimit, fl.search) :
            \E runs \in {[spared \in BOOLEAN |->
                            ChatRun(providers, modelMap, kv, vstore, sid, message,
                                    IF spared THEN BestEffortOk(fl) ELSE fl,
                                    found, fails)]} :
               /\ kv' = runs[FALSE].kv
               /\ vstore' = runs[FALSE].vs
               /\ lastGen' = <<runs[FALSE].gen>>
               /\ frames' = [frames EXCEPT ![c] =
                     [Returns([f EXCEPT !.ops = runs[FALSE].ops],
                              runs[FALSE].ret.err, runs[FALSE].ret.has,
                              runs[FALSE].ret.val)
                         EXCEPT !.ideal = runs[TRUE].ret]]
    /\ UNCHANGED <<engineVars, runVars, input, output>>

\* the document Service.FiveWhy stores
RootDoc(sid, rc) ==
    [ID |-> sid \o "_root", Content |-> rc.RootCause, Vector |-> NoVector,
     Meta |-> [type |-> "root_cause", userID |-> "u1"]]

\* (a variant that reports the failure of the repository)
FiveWhyResult_Strict(run, storeErr, appendErr, saveErr) ==
    IF ~run.has THEN [err |-> run.err, has |-> FALSE, val |-> <<>>]
    ELSE IF saveErr # "" THEN [err |-> saveErr, has |-> FALSE, val |-> <<>>]
    ELSE [err |-> "", has |-> TRUE, val |-> run.session]

\* Service.FiveWhy: what it returns, run what RunFiveWhy returned
FiveWhyResult(run, storeErr, appendErr, saveErr) ==
    IF ~run.has THEN [err |-> run.err, has |-> FALSE, val |-> <<>>]
    ELSE [err |-> "", has |-> TRUE, val |-> run.session]

\* Service.FiveWhy(ctx, sessionID, userID, question), up to the call of
\* RunFiveWhy; enabled is cfg.FiveWhy
FiveWhyCall(c, sid, question, enabled, fl) ==
    /\ pc = "idle"
    /\ mgr
    /\ \A d \in Callers : frames[d].at = "idle"
    /\ LET f == Counted(NewFrame(c, "FiveWhy", sid, <<>>, question, 0)) IN
       IF ~enabled
       THEN /\ frames' = [frames EXCEPT ![c] =
                  [Returns(f, "five-why engine disabled", FALSE, <<>>) EXCEPT
                      !.ideal = [err |-> "five-why engine disabled",
                                 has |-> FALSE, val |-> <<>>]]]
            /\ kv' = kv
       ELSE \E a \in {AppendOnce(kv, sid, UserRole, question,
                                 fl.appendRead, fl.appendWrite)} :
               /\ kv' = a.kv
               /\ frames' = [frames EXCEPT ![c] =
                     [f EXCEPT !.at = "run", !.ops = a.ops]]
    /\ UNCHANGED <<engineVars, vstore, runVars, lastGen, input, output>>

\* the service calls s.orchestrator.RunFiveWhy(ctx, sessionID, question)
FiveWhyRun(c) ==
    /\ frames[c].op = "FiveWhy"
    /\ frames[c].at = "run"
    /\ StartRun(frames[c].sid, frames[c].content)

\* (a variant that persists whatever RunFiveWhy returned)
FiveWhyReturn_Always(c, fl) ==
    /\ frames[c].op = "FiveWhy"
    /\ frames[c].at = "run"
    /\ pc = "done"
    /\ LET f  == frames[c]
           st == PgStore(vstore, RootDoc(f.sid, ret.session.RootCause), TRUE)
       IN \E a \in {AppendOnce(kv, f.sid, AssistantRole,
                               ret.session.RootCause.RootCause,
                               fl.replyRead, fl.replyWrite)} :
          LET h == FiveWhyResult(ret, st.err, a.err, SaveError(fl.save)) IN
          /\ kv' = a.kv
          /\ vstore' = st.store
          /\ frames' = [frames EXCEPT ![c] =
                [Returns([f EXCEPT !.ops = f.ops \o <<Access("run", f.sid, ret.err)>>
                                             \o <<Access("store", f.sid \o "_root", st.err)>>
                                             \o a.ops
                                             \o <<Access("save", f.sid, SaveError(fl.save))>>],
                         h.err, h.has, h.val)
                    EXCEPT !.ideal = FiveWhyResult(ret, "", "", "")]]
    /\ UNCHANGED <<engineVars, runVars, lastGen, input, output>>

\* Service.FiveWhy from the return of RunFiveWhy to its own
FiveWhyReturn(c, fl) ==
    /\ frames[c].op = "FiveWhy"
    /\ frames[c].at = "run"
    /\ pc = "done"
    /\ LET f  == frames[c]
           st == PgStore(vstore, RootDoc(f.sid, ret.session.RootCause), TRUE)
       IN \E a \in {AppendOnce(kv, f.sid, AssistantRole,
                               ret.session.RootCause.RootCause,
                               fl.replyRead, fl.replyWrite)} :
          LET h     == FiveWhyResult(ret, st.err, a.err, SaveError(fl.save))
              after == IF ret.has
                       THEN <<Access("store", f.sid \o "_root", st.err)>> \o a.ops
                               \o <<Access("save", f.sid, SaveError(fl.save))>>
                       ELSE <<>>
          IN /\ kv' = IF ret.has THEN a.kv ELSE kv
             /\ vstore' = IF ret.has THEN st.store ELSE vstore
             /\ frames' = [frames EXCEPT ![c] =
                   [Returns([f EXCEPT !.ops = f.ops \o <<Access("run", f.sid, ret.err)>>
                                                \o after],
                            h.err, h.has, h.val)
                       EXCEPT !.ideal = FiveWhyResult(ret, "", "", "")]]
    /\ UNCHANGED <<engineVars, runVars, lastGen, input, output>>

NextService ==
    \/ NewManager("local")
    \/ RegisterProvider([kind |-> "mock", name |-> "primary"])
    \/ /\ pc = "idle"
       /\ Cardinality(DOMAIN vstore) < MaxMemories
       /\ StoreLongTermCall(Writer, <<"m">>, TRUE)
    \/ \E sid \in SessionIDs, message \in {<<>>, <<"h", "i">>}, fl \in Scenarios,
          fails \in BOOLEAN :
          /\ IF fails THEN fl = AllOk ELSE message # <<>>
          /\ ChatCall(Reader, sid, message, fl, fails)
    \/ \E q \in Questions, enabled \in BOOLEAN, fl \in Failing({"appendWrite"}) :
          FiveWhyCall(Reader, "s1", q, enabled, fl)
    \/ FiveWhyRun(Reader)
    \/ WhyGen
    \/ EvalGen
    \/ NextGen
    \/ RootCauseGen
    \/ SolutionGen
    \/ ReframeGen
    \/ StoreQuestion
    \/ StoreRootCause
    \/ StoreSolution
    \/ \E fl \in Failing({"replyWrite", "save"}) : FiveWhyReturn(Reader, fl)

SpecService == Init /\ [][NextService]_vars

(***************************************************************************)
(* Two runs of RunFiveWhy at their three writes.  Each run has its own     *)
(* locals; the table is the one thing they share, and nothing is held      *)
(* between one Store and the next.  A run arrives with the question it was *)
(* called with, the root cause it parsed and the solution text it got.     *)
(***************************************************************************)
RunQuestions == {<<"q">>, <<"w">>}

RunRootCauses == {<<"r">>, <<"c">>}

RunSolutions == {<<"x">>, <<"y">>}

\* RunFiveWhy(ctx, sid, question) after the parse of the reframe
RunReachesStores(c, sid, question, rc, sol) ==
    /\ frames[c].at = "idle"
    /\ frames' = [frames EXCEPT ![c] =
          [NewFrame(c, "RunFiveWhy", sid, <<>>, question, 0) EXCEPT
              !.at = "store_q", !.made = [rc |-> rc, sol |-> sol]]]
    /\ UNCHANGED <<engineVars, storeVars, runVars, lastGen, input, output>>

\* the document a run writes at a position
RunDoc(f) ==
    CASE f.at = "store_q"   -> QuestionDoc(f.sid, f.content)
      [] f.at = "store_rca" -> RootCauseDoc(f.sid, [RootCause |-> f.made.rc])
      [] OTHER              -> SolutionDoc(f.sid, f.made.sol)

AfterStore(at) ==
    CASE at = "store_q"   -> "store_rca"
      [] at = "store_rca" -> "store_sol"
      [] OTHER            -> "return"

\* one of the three _ = o.vector.Store(ctx, ...) of a run; after the last,
\* return session, nil
RunStore(c) ==
    /\ frames[c].op = "RunFiveWhy"
    /\ frames[c].at \in {"store_q", "store_rca", "store_sol"}
    /\ \E f \in {frames[c]} :
       \E doc \in {RunDoc(f)} :
       \E dbOk \in DbOutcomes(doc) :
       \E s \in {PgStore(vstore, doc, dbOk)} :
       \E to \in {Discard(s.err, AfterStore(f.at))} :
       \E g \in {[f EXCEPT !.ops = Append(@, Access("store", doc.ID, s.err))]} :
          /\ vstore' = s.store
          /\ frames' = [frames EXCEPT ![c] =
                IF to = "return" THEN Returns(g, "", TRUE, <<>>)
                ELSE [g EXCEPT !.at = to]]
    /\ UNCHANGED <<engineVars, kv, runVars, lastGen, input, output>>

NextMix ==
    \/ \E c \in Callers, question \in RunQuestions, rc \in RunRootCauses,
          sol \in RunSolutions : RunReachesStores(c, "s1", question, rc, sol)
    \/ \E c \in Callers : RunStore(c)

SpecMix == Init /\ [][NextMix]_vars


(***************************************************************************)
(* Properties                                                              *)
(***************************************************************************)
Returned == pc = "done"

Last(s) == s[Len(s)]

Modes(calls) == [k \in 1..Len(calls) |-> calls[k].what]

\* the modes of the generation calls of a whole run, in order
ExpectedModes ==
    [k \in 1..18 |->
        IF k = 16 THEN ModeDiagnosis
        ELSE IF k = 17 THEN ModePlanning
        ELSE IF k = 18 THEN ModeReasoning
        ELSE IF k % 3 = 2 THEN ModeAnalysis
        ELSE ModeReasoning]

ParsedOk(what) == \E k \in 1..Len(trace) : trace[k] = Parse(what, "")

StoreEntries == SelectSeq(trace, LAMBDA e : e.op = "store")

\* C1: a run on a non-empty question returns either a session with exactly
\* five steps at levels 1..5 in order, whose root cause, solution and
\* reframed question are the successfully parsed ones, and no error; or an
\* error and no session.
C1_SessionOrError ==
    (Returned /\ userQuestion # <<>>) =>
        \/ /\ ret.has
           /\ ret.err = ""
           /\ Len(ret.session.Steps) = 5
           /\ \A k \in 1..5 : ret.session.Steps[k].Level = k
           /\ ParsedOk("root_cause") /\ ParsedOk("solution") /\ ParsedOk("reframe")
           /\ ret.session.RootCause = rootCause
           /\ ret.session.Solution = ParseSolution(solText).out
           /\ ret.session.Reframed = ParseReframe(lastGen[1].resp.Text).out
        \/ /\ ~ret.has
           /\ ret.err # ""
           /\ ret.session = ZeroSession

C1_Witness ==
    /\ Returned
    /\ ret.has
    /\ Len(ret.session.Steps) = 5
    /\ ret.session.RootCause.RootCause = <<"r">>

\* C2: a failing step is the last thing its run does: the run has returned,
\* with no session and with that step's error, no generation call follows
\* it, and no document write was attempted or made.
C2_FailureStopsTheRun ==
    /\ \A k \in 1..Len(trace) :
          (trace[k].op \in {"gen", "parse"} /\ trace[k].err # "") =>
              /\ k = Len(trace)
              /\ Returned
              /\ ~ret.has
              /\ ret.err = trace[k].err
              /\ StoreEntries = <<>>
              /\ {sessionID, sessionID \o "_rca", sessionID \o "_solution"}
                    \cap DOMAIN vstore = {}
    /\ (Returned /\ userQuestion = <<>>) =>
          (trace = <<>> /\ ~ret.has /\ ret.err = "empty question")

C2_Witness ==
    /\ Returned
    /\ Len(Calls) = 17
    /\ Last(trace) = Parse("solution", "json: cannot unmarshal value into field")
    /\ ret.err = "json: cannot unmarshal value into field"

\* C3: the generation calls of a run are, in order, a prefix of (reasoning,
\* analysis, reasoning) five times, then diagnosis, planning, reasoning; a
\* run that returns a session has made all 18; and a document write is only
\* attempted after the 18th call.
C3_CallOrder ==
    /\ Len(Calls) <= 18
    /\ \A k \in 1..Len(Calls) : Calls[k].what = ExpectedModes[k]
    /\ (Returned /\ ret.has) => Modes(Calls) = ExpectedModes
    /\ \A k \in 1..Len(trace) :
          trace[k].op = "store" =>
              Len(SelectSeq(SubSeq(trace, 1, k), LAMBDA e : e.op = "gen")) = 18

C3_Witness ==
    /\ Returned
    /\ ret.has
    /\ Modes(Calls) = ExpectedModes
    /\ Len(StoreEntries) = 3

\* C4: after a run returns a session for sid, the vector store holds sid
\* with the question (type question), sid_rca with the root-cause text (type
\* root_cause) and sid_solution with the solution text (type solution).
C4_ThreeDocumentsStored ==
    (Returned /\ ret.has) =>
        /\ {sessionID, sessionID \o "_rca", sessionID \o "_solution"}
              \subseteq DOMAIN vstore
        /\ vstore[sessionID].Content = userQuestion
        /\ vstore[sessionID].Meta.type = "question"
        /\ vstore[sessionID \o "_rca"].Content = ret.session.RootCause.RootCause
        /\ vstore[sessionID \o "_rca"].Meta.type = "root_cause"
        /\ vstore[sessionID \o "_solution"].Content = solText
        /\ vstore[sessionID \o "_solution"].Meta.type = "solution"

\* C5: once the reframe output has parsed, the run never returns an error:
\* when it returns, it returns the populated session and nil, after having
\* attempted the three writes in order, whatever each write came to.
C5_StoreFailuresIgnored ==
    (Returned /\ ParsedOk("reframe")) =>
        /\ ret.has
        /\ ret.err = ""
        /\ Len(ret.session.Steps) = 5
        /\ ret.session.RootCause = rootCause
        /\ Len(StoreEntries) = 3
        /\ StoreEntries[1].what = sessionID
        /\ StoreEntries[2].what = sessionID \o "_rca"
        /\ StoreEntries[3].what = sessionID \o "_solution"

C5_Witness ==
    /\ Returned
    /\ ret.has
    /\ Len(StoreEntries) = 3
    /\ StoreEntries[1].err = "missing document id"
    /\ StoreEntries[2].err = "missing embedding vector"
    /\ StoreEntries[3].err = "missing embedding vector"

\* C6: a run during which the caller's context was cancelled aborts: it
\* returns an error instead of a session.
C6_NoSessionAfterCancel ==
    (Returned /\ cancelled) => (~ret.has /\ ret.err # "")

Called == lastGen # <<>>

G == lastGen[1]

\* C7: a call of Generate with an empty prompt fails with "empty prompt",
\* returns the empty response and dispatches nothing, also when a back end
\* is registered under the name the policy selects.
C7_EmptyPromptRejected ==
    (Called /\ G.req.Prompt = <<>>) =>
        (G.err = "empty prompt" /\ G.sent = <<>> /\ G.resp = EmptyResponse)

C7_Witness ==
    /\ Called
    /\ G.req.Prompt = <<>>
    /\ G.err = "empty prompt"
    /\ "primary" \in DOMAIN providers

\* C8: a call of Generate with a prompt, made while no back end is
\* registered under the policy's name, fails with the not-registered error
\* and reaches no back end, not even one registered under another name.
C8_NotRegistered ==
    (Called /\ G.req.Prompt # <<>> /\ "primary" \notin DOMAIN providers) =>
        /\ G.err = "llm provider not registered: primary"
        /\ G.sent = <<>>
        /\ G.got = <<>>
        /\ G.resp = EmptyResponse

C8_Witness ==
    /\ Called
    /\ G.err = "llm provider not registered: primary"
    /\ DOMAIN providers = {"secondary"}

\* C9: a dispatched request carries the caller's prompt, which is not
\* empty, the caller's temperature, and the caller's max-token value, or
\* 1024 in place of 0; with the mode unset, the model is the default mode's
\* and the back end the one the policy selects for the default mode.
C9_DispatchedRequest ==
    (Called /\ G.sent # <<>>) =>
        /\ G.sent[1].Prompt = G.req.Prompt
        /\ G.sent[1].Prompt # <<>>
        /\ G.sent[1].Temperature = G.req.Temperature
        /\ G.sent[1].MaxTokens = (IF G.req.MaxTokens = 0 THEN 1024 ELSE G.req.MaxTokens)
        /\ G.req.Mode = "" =>
              /\ G.sent[1].Model = "default-model"
              /\ G.err = "" => G.resp.Provider = SelectProvider(ModeDefault).name

C9_Witness ==
    /\ Called
    /\ Len(G.sent) = 1
    /\ G.req.Mode = ""
    /\ G.req.MaxTokens = 2048
    /\ G.sent[1].MaxTokens = 2048
    /\ G.req.Temperature = 1

\* C10: a call of Generate reaches the back end at most once; when the back
\* end returns an error, Generate returns that error, the empty response
\* and so no confidence.
C10_NoRetry ==
    Called =>
        /\ Len(G.sent) <= 1
        /\ Len(G.got) = Len(G.sent)
        /\ (G.got # <<>> /\ G.got[1].err # "") =>
              /\ G.err = G.got[1].err
              /\ G.resp = EmptyResponse
              /\ G.resp.Confidence = 0

C10_Witness ==
    /\ Called
    /\ Len(G.sent) = 1
    /\ G.got[1].err = "backend failure"
    /\ G.err = "backend failure"

\* C11: EstimateConfidence returns, for a text of length L and whatever the
\* mode and the characters, 0.50 when L <= 300, 0.70 when 300 < L <= 800,
\* 0.85 when 800 < L <= 1500 and 0.95 when L > 1500 (values in hundredths).
C11_ConfidenceSteps ==
    output.fn = "EstimateConfidence" =>
        LET L == Len(input.text) IN
        /\ L <= 300 => output.val = 50
        /\ (300 < L /\ L <= 800) => output.val = 70
        /\ (800 < L /\ L <= 1500) => output.val = 85
        /\ L > 1500 => output.val = 95
        /\ L = 300 => output.val = 50
        /\ L = 301 => output.val = 70
        /\ L = 800 => output.val = 70
        /\ L = 801 => output.val = 85
        /\ L = 1500 => output.val = 85
        /\ L = 1501 => output.val = 95

C11_Witness ==
    /\ output.fn = "EstimateConfidence"
    /\ Len(input.text) = 1500
    /\ input.mode = "creative"
    /\ output.val = 85

\* the trimmed text, and the slice of it from its first "{" to its last "}"
Trimmed == TrimSpace(input.text)

HasPair ==
    \E a, b \in 1..Len(Trimmed) : a < b /\ Trimmed[a] = "{" /\ Trimmed[b] = "}"

FirstOpen == CHOOSE a \in 1..Len(Trimmed) :
                Trimmed[a] = "{" /\ \A q \in 1..(a - 1) : Trimmed[q] # "{"

LastClose == CHOOSE b \in 1..Len(Trimmed) :
                Trimmed[b] = "}" /\ \A q \in (b + 1)..Len(Trimmed) : Trimmed[q] # "}"

GreedySlice == SubSeq(Trimmed, FirstOpen, LastClose)

\* C13: for trimmed output with a "{" followed later by a "}", extraction
\* succeeds exactly when the slice from the first "{" to the last "}"
\* decodes as an object, and then returns that slice; a valid object behind
\* one more "{" is rejected, by extraction and so by the parsers.
C13_GreedyExtraction ==
    /\ (output.fn = "extractJSON" /\ HasPair) =>
          /\ output.val.err = "" <=> DecodeObject(GreedySlice).ok
          /\ output.val.err = "" => output.val.json = GreedySlice
          /\ output.val.err # "" => output.val.err = "invalid json structure"
    /\ (output.fn # "" /\ Trimmed # <<>> /\ Head(Trimmed) = "{"
          /\ DecodeObject(Tail(Trimmed)).ok) =>
          output.val.err = "invalid json structure"

C13_Witness ==
    /\ output.fn = "ParseRootCause"
    /\ input.text = OutGreedy
    /\ DecodeObject(Tail(input.text)).ok
    /\ output.val.err = "invalid json structure"

Parsers == {"ParseRootCause", "ParseSolution", "ParseReframe"}

SchemaOf(fn) ==
    CASE fn = "ParseRootCause" -> RootCauseResult
      [] fn = "ParseSolution"  -> SolutionResult
      [] OTHER                 -> ReframedQuestion

\* C14: each of the three parsers fails with "no json found in llm output",
\* and fills nothing in, when the raw text has no "{", has no "}", or has
\* its last "}" before its first "{".
C14_NoBracketPair ==
    (output.fn \in Parsers /\
        \/ \A k \in 1..Len(input.text) : input.text[k] # "{"
        \/ \A k \in 1..Len(input.text) : input.text[k] # "}"
        \/ \A a, b \in 1..Len(input.text) :
              (input.text[a] = "{" /\ input.text[b] = "}") => b < a) =>
        /\ output.val.err = "no json found in llm output"
        /\ output.val.out = ZeroValue(SchemaOf(output.fn))

C14_Witness ==
    /\ output.fn = "ParseSolution"
    /\ input.text = <<"}", " ", "{">>
    /\ output.val.err = "no json found in llm output"

\* the registrations made so far, in order
Registrations == output.val

\* C12: the registry holds exactly the names registered so far, one back
\* end under each, and that back end is the one registered last under the
\* name; a registration under a name already taken goes through like any
\* other and leaves the entries under the other names as they were.
C12_LastWriteWins ==
    output.fn = "RegisterProvider" =>
        /\ DOMAIN providers =
              {Registrations[k].name : k \in 1..Len(Registrations)}
        /\ \A k \in 1..Len(Registrations) :
              (\A later \in (k + 1)..Len(Registrations) :
                    Registrations[later].name # Registrations[k].name) =>
                 providers[Registrations[k].name] = Registrations[k]

C12_Witness ==
    /\ output.fn = "RegisterProvider"
    /\ Len(Registrations) = 3
    /\ Registrations[1] = [kind |-> "local", name |-> "primary"]
    /\ Registrations[2] = [kind |-> "mock", name |-> "secondary"]
    /\ Registrations[3] = [kind |-> "mock", name |-> "primary"]
    /\ providers["primary"] = Registrations[3]
    /\ providers["secondary"] = Registrations[2]
    /\ mgr

\* the calls of one kind that have returned
Done(c, op) == frames[c].op = op /\ frames[c].at = "done"

\* the transcript a stored text spells: none for an empty value
Transcript(text) ==
    IF text = <<>> THEN <<>>
    ELSE UnmarshalSession(text, ZeroSessionMemory).session.Messages

Decodes(text) == UnmarshalSession(text, ZeroSessionMemory).err = ""

\* C15: AppendSession returns an error exactly when the session id is
\* empty, and then without any access to the store; with a session id it
\* returns nil whatever the read, the decoding and the write came to.
C15_AppendErrors ==
    \A c \in Callers : Done(c, "AppendSession") =>
        LET f == frames[c] IN
        /\ f.ret.err # "" <=> f.sid = ""
        /\ f.sid = "" => (f.ret.err = "missing session id" /\ f.ops = <<>>)
        /\ f.sid # "" => (Len(f.ops) = 2 /\ f.ops[1].op = "get" /\ f.ops[2].op = "set")

C15_Witness ==
    /\ Done("a", "AppendSession")
    /\ frames["a"].sid = "s1"
    /\ frames["a"].ops[1].err = "read failure"
    /\ frames["a"].ops[2].err = "write failure"
    /\ frames["a"].ret.err = ""
    /\ Done("b", "AppendSession")
    /\ frames["b"].sid = "s1"
    /\ frames["b"].data = <<"x">>
    /\ ~Decodes(frames["b"].data)
    /\ frames["b"].ret.err = ""

\* C16: an append whose read and write succeed, with no other write under
\* the key between the two, leaves under session:sid the transcript that
\* was there before (none: the empty one) followed by the one message
\* (role, content), with an expiry of 24 hours.
C16_AppendsOneMessage ==
    \A c \in Callers :
        LET f == frames[c] IN
        (/\ Done(c, "AppendSession")
         /\ f.sid # ""
         /\ f.ops[1].err \in {"", "redis: nil"}
         /\ f.ops[2].err = ""
         /\ f.prior.val = f.data
         /\ f.data # <<>> => Decodes(f.data)) =>
            /\ f.ops[2].key = "session:" \o f.sid
            /\ Decodes(f.after.val)
            /\ Transcript(f.after.val) =
                  Append(Transcript(f.prior.val), [Role |-> f.role, Content |-> f.content])
            /\ f.after.ttl = 24 * 60

C16_Witness ==
    /\ Done("b", "AppendSession")
    /\ frames["b"].sid = "s1"
    /\ frames["b"].ops[1].err = ""
    /\ frames["b"].ops[2].err = ""
    /\ frames["b"].prior.val = frames["b"].data
    /\ Transcript(frames["b"].prior.val) = <<[Role |-> UserRole, Content |-> <<"h", "i">>]>>
    /\ Transcript(frames["b"].after.val) =
          <<[Role |-> UserRole, Content |-> <<"h", "i">>],
            [Role |-> AssistantRole, Content |-> <<"\"", "}", "\\">>]>>
    /\ frames["b"].after.ttl = 1440

\* C17: an append whose write the store accepts returns nil and leaves
\* under the key what that caller read followed by its own message,
\* whatever was written under the key since it read; so of two appends
\* that both read before either writes, the one that writes last wins and
\* the other's message is gone.
C17_LastWriteWins ==
    \A c \in Callers :
        LET f == frames[c] IN
        (Done(c, "AppendSession") /\ f.sid # "" /\ f.ops[2].err = "") =>
            /\ f.ret.err = ""
            /\ Transcript(f.after.val) =
                  Append(Transcript(f.data), [Role |-> f.role, Content |-> f.content])

C17_Witness ==
    /\ \A c \in Callers :
          /\ Done(c, "AppendSession")
          /\ frames[c].sid = "s1"
          /\ frames[c].ops[1].err = "redis: nil"
          /\ frames[c].ops[2].err = ""
          /\ frames[c].ret.err = ""
    /\ frames["a"].prior = NoEntry
    /\ frames["b"].prior = frames["a"].after
    /\ kv["session:s1"] = frames["b"].after
    /\ Transcript(kv["session:s1"].val) =
          <<[Role |-> AssistantRole, Content |-> <<"\"", "}", "\\">>]>>

\* C18: GetSession returns "session not found" and no SessionMemory when
\* the read fails, when there is no value under session:<id> and when the
\* value there is empty; it only ever reads the store.
C18_SessionNotFound ==
    \A c \in Callers : Done(c, "GetSession") =>
        LET f == frames[c] IN
        /\ Len(f.ops) = 1
        /\ f.ops[1] \in {Access("get", "session:" \o f.sid, e) :
                            e \in {"", "redis: nil", "read failure"}}
        /\ (f.ops[1].err # "" \/ f.data = <<>>) =>
              (f.ret.err = "session not found" /\ ~f.ret.has /\ f.ret.val = <<>>)

C18_Witness ==
    /\ Done("a", "GetSession")
    /\ frames["a"].sid = "s1"
    /\ "session:s1" \in DOMAIN kv
    /\ kv["session:s1"].val = <<>>
    /\ frames["a"].ops[1].err = ""
    /\ frames["a"].ret.err = "session not found"
    /\ Done("b", "GetSession")
    /\ frames["b"].ops[1].err = "read failure"
    /\ frames["b"].ret.err = "session not found"

\* the documents a Recall has returned
Recalled(c) == frames[c].ret.val.Documents

\* C19: a Recall that returns a memory returns as many documents as the
\* table holds, up to 5 when its limit is 0 or negative and up to its limit
\* when that is positive; never more.
C19_RecallLimit ==
    \A c \in Callers : (Done(c, "Recall") /\ frames[c].ret.has) =>
        LET f   == frames[c]
            cap == IF f.limit <= 0 THEN 5 ELSE f.limit
        IN /\ Len(Recalled(c)) <= cap
           /\ Len(Recalled(c)) = (IF f.rows <= cap THEN f.rows ELSE cap)

C19_Witness ==
    /\ Done(Reader, "Recall")
    /\ frames[Reader].ret.has
    /\ frames[Reader].limit = -3
    /\ frames[Reader].rows = 6
    /\ Len(Recalled(Reader)) = 5

\* C20: a Recall with an empty query returns "empty query" without having
\* embedded or searched anything; with a query, the error of the embedding
\* or of the search is the error it returns, and it returns no memory.
C20_RecallErrors ==
    \A c \in Callers : Done(c, "Recall") =>
        LET f == frames[c] IN
        /\ f.content = <<>> =>
              (f.ret.err = "empty query" /\ f.ops = <<>> /\ ~f.ret.has)
        /\ f.content # <<>> =>
              /\ Len(f.ops) >= 1
              /\ f.ops[1].op = "embed"
              /\ \A k \in 1..Len(f.ops) : f.ops[k].err # "" =>
                    (f.ret.err = f.ops[k].err /\ ~f.ret.has /\ f.ret.val = <<>>)

C20_Witness ==
    /\ Done(Reader, "Recall")
    /\ frames[Reader].content = <<"q">>
    /\ Len(frames[Reader].ops) = 2
    /\ frames[Reader].ops[2] = Access("search", "", "search failure")
    /\ frames[Reader].ret.err = "search failure"
    /\ vstore # <<>>

\* C21: HybridContext returns a string and a nil error whatever the read of
\* the session, the query, the embedding and the vector search came to.
C21_HybridNeverFails ==
    \A c \in Callers : Done(c, "HybridContext") =>
        (frames[c].ret.err = "" /\ frames[c].ret.has)

C21_Witness ==
    /\ Done(Reader, "HybridContext")
    /\ frames[Reader].sid = "s1"
    /\ frames[Reader].ops[1] = Access("get", "session:s1", "read failure")
    /\ Len(frames[Reader].ops) = 3
    /\ frames[Reader].ops[3] = Access("search", "", "search failure")
    /\ frames[Reader].ret = [err |-> "", has |-> TRUE, val |-> <<>>]
    /\ "session:s1" \in DOMAIN kv
    /\ vstore # <<>>

\* the lines of a text, each without the newline that ends it
RECURSIVE LinesOf(_, _)
LinesOf(text, line) ==
    IF text = <<>> THEN (IF line = <<>> THEN <<>> ELSE <<line>>)
    ELSE IF Head(text) = "\n" THEN <<line>> \o LinesOf(Tail(text), <<>>)
    ELSE LinesOf(Tail(text), Append(line, Head(text)))

\* C22: when nothing is stored under the session's key and the vector
\* search succeeds, HybridContext returns the semantic-memory section alone:
\* the header, then the content of every recalled document on a line of
\* its own, no "role: content" line, and a nil error.
C22_SemanticOnly ==
    \A c \in Callers :
        (/\ Done(c, "HybridContext")
         /\ frames[c].ops[1].err = "redis: nil"
         /\ Len(frames[c].ops) = 3
         /\ frames[c].ops[3].err = "") =>
        LET f    == frames[c]
            cap  == IF f.limit <= 0 THEN 5 ELSE f.limit
            body == SubSeq(f.ret.val, 4, Len(f.ret.val))
        IN /\ f.ret.err = ""
           /\ Len(f.ret.val) >= 3
           /\ SubSeq(f.ret.val, 1, 3) = <<"\n", "--- Semantic Memory ---", "\n">>
           /\ Len(LinesOf(body, <<>>)) = (IF f.rows <= cap THEN f.rows ELSE cap)
           /\ \A k \in 1..Len(LinesOf(body, <<>>)) :
                 \E d \in DOMAIN vstore : vstore[d].Content = LinesOf(body, <<>>)[k]
           /\ \A k \in 1..Len(f.ret.val) : f.ret.val[k] # ":"

C22_Witness ==
    /\ Done(Reader, "HybridContext")
    /\ frames[Reader].sid = "s1"
    /\ frames[Reader].ops[1].err = "redis: nil"
    /\ Len(frames[Reader].ops) = 3
    /\ frames[Reader].ops[3].err = ""
    /\ frames[Reader].rows = 2
    /\ frames[Reader].ret.val =
          <<"\n", "--- Semantic Memory ---", "\n", "m", "\n", "m", "m", "\n">>

\* the access of one kind a call made, if it made one
Made(c, what) == {k \in 1..Len(frames[c].ops) : frames[c].ops[k].op = what}

\* C23 as stated: a CompressSession whose Store of the summary failed
\* returns that failure.
C23_StoreFailureReturned ==
    \A c \in Callers :
        (Done(c, "CompressSession") /\ Made(c, "store") # {}) =>
            \A k \in Made(c, "store") :
                frames[c].ops[k].err # "" => frames[c].ret.err = frames[c].ops[k].err

\* C23, amended: once the generation has succeeded CompressSession returns
\* the summary text and a nil error, whatever the embedding and the Store
\* of the summary came to.
C23_StoreFailureDiscarded ==
    \A c \in Callers :
        (Done(c, "CompressSession") /\ Made(c, "store") # {}) =>
            /\ frames[c].ret.err = ""
            /\ frames[c].ret.has
            /\ lastGen # <<>>
            /\ frames[c].ret.val = lastGen[1].resp.Text

C23_Witness ==
    /\ Done(Reader, "CompressSession")
    /\ frames[Reader].sid = "s1"
    /\ Len(frames[Reader].ops) = 4
    /\ frames[Reader].ops[3] = Access("embed", "", "")
    /\ frames[Reader].ops[4] = Access("store", "s1_summary", "store failure")
    /\ frames[Reader].ret = [err |-> "", has |-> TRUE, val |-> <<"t", "1">>]
    /\ "s1_summary" \notin DOMAIN vstore

\* a step in which a call of CompressSession returns
CompressReturns(c) ==
    /\ frames'[c] # frames[c]
    /\ frames'[c].op = "CompressSession"
    /\ frames'[c].at = "done"

\* C24: CompressSession fails when there is no transcript, and then calls
\* neither the model nor the vector store; it fails when the generation
\* fails, and then does not touch the vector store.
C24_CompressFailures ==
    [][\A c \in Callers : CompressReturns(c) =>
          LET f == frames'[c] IN
          /\ (f.ops[1].err # "" \/ f.data = <<>>) =>
                (f.ret.err = "session not found" /\ ~f.ret.has /\ Len(f.ops) = 1
                    /\ lastGen' = lastGen /\ vstore' = vstore)
          /\ (Len(f.ops) >= 2 /\ f.ops[2].err # "") =>
                (/\ f.ops[2].op = "generate"
                 /\ f.ops[2].key = "analysis"
                 /\ f.ret.err = f.ops[2].err
                 /\ ~f.ret.has
                 /\ Len(f.ops) = 2
                 /\ vstore' = vstore)]_vars

C24_Witness ==
    /\ Done(Reader, "CompressSession")
    /\ frames[Reader].sid = "s1"
    /\ frames[Reader].ops = <<Access("get", "session:s1", ""),
                              Access("generate", "analysis", "backend failure")>>
    /\ frames[Reader].ret = [err |-> "backend failure", has |-> FALSE, val |-> <<>>]
    /\ Transcript(frames[Reader].data) # <<>>

\* the Store calls made so far, each [doc, err, after], after the table as
\* the call left it
Stores == output.val

\* C25: Store returns "missing document id" for a document without an
\* identifier and "missing embedding vector" for one with an identifier and
\* without a vector, and a Store of a document without either leaves the
\* table as it was; Search returns "empty query vector" for an empty vector.
C25_StoreSearchErrors ==
    [][/\ Stores' # Stores =>
            LET e == Stores'[Len(Stores')] IN
            /\ e.doc.ID = "" => (e.err = "missing document id" /\ vstore' = vstore)
            /\ e.doc.Vector.dim = 0 => (e.err # "" /\ vstore' = vstore)
            /\ (e.doc.ID # "" /\ e.doc.Vector.dim = 0) =>
                  e.err = "missing embedding vector"
       /\ \A c \in Callers :
            (frames'[c] # frames[c] /\ frames'[c].op = "Search"
                /\ frames'[c].content.dim = 0) =>
               (frames'[c].ret.err = "empty query vector" /\ ~frames'[c].ret.has)]_vars

C25_Witness ==
    /\ Len(Stores) = 3
    /\ Stores[1].err = ""
    /\ Stores[2].doc.ID = ""
    /\ Stores[2].err = "missing document id"
    /\ Stores[3].doc.ID = "d2"
    /\ Stores[3].err = "missing embedding vector"
    /\ DOMAIN vstore = {"d1"}
    /\ Done(Reader, "Search")
    /\ frames[Reader].content = NoVector
    /\ frames[Reader].ret.err = "empty query vector"

\* the last Store of a document with the identifier that returned nil
LastStored(id) ==
    LET ks == {k \in 1..Len(Stores) : Stores[k].doc.ID = id /\ Stores[k].err = ""}
    IN Stores[CHOOSE k \in ks : \A j \in ks : j <= k].doc

\* C26 as stated: the table holds one row for every identifier stored and
\* no other, the row carrying the content, the embedding and the metadata
\* of the most recent Store of that identifier; and a Store that repeats
\* the one before it leaves the table as that one left it.
C26_Upsert ==
    /\ DOMAIN vstore = {Stores[k].doc.ID :
                           k \in {j \in 1..Len(Stores) : Stores[j].err = ""}}
    /\ \A id \in DOMAIN vstore :
          /\ vstore[id].Content = LastStored(id).Content
          /\ vstore[id].Vector = LastStored(id).Vector
          /\ vstore[id].Meta = LastStored(id).Meta
    /\ \A k \in 1..(Len(Stores) - 1) :
          (Stores[k].doc = Stores[k + 1].doc /\ Stores[k].err = ""
              /\ Stores[k + 1].err = "") => Stores[k + 1].after = Stores[k].after

\* the keys of the session memory
SessionKeys(store) == {k \in DOMAIN store : k # LastResponseKey}

\* C27: a call of ExtractRootCause or of ReframeQuestion makes one
\* generation call, of mode diagnosis and reasoning respectively, and
\* parses its text by the rule of extractJSON; failing or not, it leaves
\* the vector table and every session transcript as they were.
C27_PartialCalls ==
    [][\A c \in Callers :
          (/\ frames'[c] # frames[c]
           /\ frames'[c].op \in {"ExtractRootCause", "ReframeQuestion"}) =>
          LET f == frames'[c] IN
          /\ Cardinality({k \in 1..Len(f.ops) : f.ops[k].op = "generate"}) = 1
          /\ f.ops[1].op = "generate"
          /\ f.ops[1].key = (IF f.op = "ExtractRootCause" THEN "diagnosis"
                             ELSE "reasoning")
          /\ Len(lastGen'[1].sent) <= 1
          /\ f.ops[1].err # "" => (f.ret.err = f.ops[1].err /\ Len(f.ops) = 1)
          /\ f.ops[1].err = "" =>
                /\ Len(f.ops) = 2
                /\ f.ops[2].op = "parse"
                /\ f.ret.err = f.ops[2].err
                /\ \A x \in {extractJSON(lastGen'[1].resp.Text)} :
                      /\ x.err # "" => f.ret.err = x.err
                      /\ x.err = "" => (f.ret.err = "" <=> f.ret.has)
          /\ vstore' = vstore
          /\ SessionKeys(kv') = SessionKeys(kv)
          /\ \A k \in SessionKeys(kv) : kv'[k] = kv[k]]_vars

C27_Witness ==
    /\ Done(Reader, "ReframeQuestion")
    /\ frames[Reader].ops = <<Access("generate", "reasoning", ""),
                              Access("parse", "reframe", "")>>
    /\ frames[Reader].ret.has
    /\ LastResponseKey \in DOMAIN kv
    /\ "session:s1" \in DOMAIN kv
    /\ Transcript(kv["session:s1"].val) # <<>>
    /\ vstore = <<>>
    /\ Done(Writer, "AppendSession")

\* the calls of the service that have returned
Served(c) == Done(c, "Chat") \/ Done(c, "FiveWhy")

\* C28 as stated: what a call of Chat or of FiveWhy returns is what it
\* would have returned had every best-effort collaborator gone through.
C28_ReturnUnchanged ==
    \A c \in Callers : Served(c) => frames[c].ret = frames[c].ideal

\* the accesses of a call that failed
FailedAccesses(c, what) ==
    {k \in 1..Len(frames[c].ops) :
        frames[c].ops[k].op = what /\ frames[c].ops[k].err # ""}

\* C28, amended: failures of the best-effort collaborators never change
\* the error a call of Chat or of FiveWhy returns, nor whether it returns a
\* value; they never change the session FiveWhy returns; and they leave
\* the response of Chat as it would have been whenever the AppendSession of
\* the user's message went through (its transcript is part of the prompt).
C28_ErrorUnchanged ==
    \A c \in Callers : Served(c) =>
        LET f == frames[c] IN
        /\ f.ret.err = f.ideal.err
        /\ f.ret.has = f.ideal.has
        /\ f.op = "FiveWhy" => f.ret = f.ideal
        /\ (/\ f.op = "Chat"
            /\ Len(f.ops) >= 2
            /\ f.ops[1] = Access("get", SessionKey(f.sid), "")
            /\ f.ops[2] = Access("set", SessionKey(f.sid), "")) => f.ret = f.ideal

C28_Witness ==
    /\ Done(Reader, "Chat")
    /\ frames[Reader].sid = "s1"
    /\ Len(frames[Reader].ops) >= 2
    /\ frames[Reader].ops[2] = Access("set", "session:s1", "write failure")
    /\ frames[Reader].ret.has
    /\ frames[Reader].ideal.has
    /\ frames[Reader].ret.err = ""
    /\ frames[Reader].ret.val.Text # frames[Reader].ideal.val.Text

\* the text the n-th generation call of a run received
ReplyOf(n) == Tok(n)

\* C29: in every session RunFiveWhy returns, step 1 asks the caller's
\* question and step k+1 asks the text of iteration k's next-why call (the
\* third call of the iteration); the answer of step k is the text of the
\* iteration's first call and its analysis the text of its second call.
C29_StepChain ==
    (Returned /\ ret.has) =>
        /\ Len(ret.session.Steps) = 5
        /\ ret.session.Steps[1].Question = userQuestion
        /\ \A k \in 1..5 :
              /\ ret.session.Steps[k].Level = k
              /\ ret.session.Steps[k].Answer = ReplyOf(3 * (k - 1) + 1)
              /\ ret.session.Steps[k].Analysis = ReplyOf(3 * (k - 1) + 2)
              /\ k < 5 => ret.session.Steps[k + 1].Question = ReplyOf(3 * k)

C29_Witness ==
    /\ Returned
    /\ ret.has
    /\ Len(ret.session.Steps) = 5
    /\ ret.session.Steps[1].Question = userQuestion
    /\ ret.session.Steps[5].Question = ReplyOf(12)
    /\ ret.session.Steps[5].Question # ret.session.Steps[4].Question

\* C30: SelectProvider answers every mode, the ones outside the enum
\* included, with the one name "primary" and no error; a call of Generate
\* therefore fails only on an empty prompt, on a missing registration of
\* that name, or with the error of the back end it reached, and a call with
\* a prompt made while "primary" is registered always reaches the back end.
C30_NoPolicyError ==
    Called =>
        /\ SelectProvider(G.req.Mode) = [name |-> "primary", err |-> ""]
        /\ G.err # "" =>
              \/ G.err = "empty prompt" /\ G.req.Prompt = <<>>
              \/ G.err = "llm provider not registered: primary" /\ G.sent = <<>>
              \/ G.got # <<>> /\ G.err = G.got[1].err
        /\ (G.req.Prompt # <<>> /\ G.err # "llm provider not registered: primary") =>
              /\ Len(G.sent) = 1
              /\ G.err = "" => G.resp.Provider = "primary"

C30_Witness ==
    /\ Called
    /\ G.req.Mode = "creative"
    /\ G.req.Prompt # <<>>
    /\ G.err = ""
    /\ Len(G.sent) = 1
    /\ G.resp.Provider = "primary"

\* C31: the model named in a dispatched request is the table's entry for the
\* request's mode when the table has one (the table of NewEngine, which no
\* call changes), and the default mode's entry otherwise: for the unset
\* mode and for a mode outside the enum.
C31_ModelResolved ==
    (Called /\ G.sent # <<>>) =>
        /\ modelMap = NewModelMap
        /\ G.req.Mode = ModeReasoning => G.sent[1].Model = "reasoning-model"
        /\ G.req.Mode = ModeAnalysis => G.sent[1].Model = "analysis-model"
        /\ G.req.Mode = ModeDiagnosis => G.sent[1].Model = "diagnosis-model"
        /\ G.req.Mode = ModePlanning => G.sent[1].Model = "planning-model"
        /\ G.req.Mode = ModeDefault => G.sent[1].Model = "default-model"
        /\ G.req.Mode \notin DOMAIN NewModelMap =>
              G.sent[1].Model = NewModelMap[ModeDefault]

C31_Witness ==
    /\ Called
    /\ Len(G.sent) = 1
    /\ G.req.Mode = "creative"
    /\ G.sent[1].Model = "default-model"
    /\ G.err = ""

\* C32: the model named in the response of a successful call is the model
\* the engine resolved for the request and sent to the back end, whatever
\* model the back end reported.
C32_ResponseModel ==
    (Called /\ G.err = "" /\ G.sent # <<>>) =>
        G.resp.Model = G.sent[1].Model

\* where the header of the semantic section stands in a text
HeaderAt(text) == {k \in 1..Len(text) : text[k] = "--- Semantic Memory ---"}

\* C33: what HybridContext returns is one "role: content" line for every
\* message of the stored transcript, in stored order (none when the read
\* fails, finds nothing or finds text that does not decode), followed by
\* the header and one line for every recalled document exactly when Recall
\* succeeded; when Recall fails (empty query, search error) the header is
\* absent and the lines of the transcript are all there is.
C33_HybridFormat ==
    \A c \in Callers : Done(c, "HybridContext") =>
        \A f \in {frames[c]} :
        \A msgs \in {IF f.ops[1].err # "" \/ f.data = <<>> \/ ~Decodes(f.data)
                     THEN <<>> ELSE Transcript(f.data)} :
        \A recalled \in {Len(f.ops) = 3 /\ f.ops[3].err = ""} :
        \A head \in {IF HeaderAt(f.ret.val) = {} THEN f.ret.val
                     ELSE SubSeq(f.ret.val, 1,
                                 (CHOOSE k \in HeaderAt(f.ret.val) : TRUE) - 2)} :
           /\ f.ret.err = ""
           /\ (HeaderAt(f.ret.val) # {}) <=> recalled
           /\ Cardinality(HeaderAt(f.ret.val)) <= 1
           /\ (f.content = <<>> \/ f.ops[Len(f.ops)].err # "") => ~recalled
           /\ Len(LinesOf(head, <<>>)) = Len(msgs)
           /\ \A k \in 1..Len(msgs) :
                 LinesOf(head, <<>>)[k] = msgs[k].Role \o <<":", " ">> \o msgs[k].Content
           /\ head = <<>> \/ Last(head) = "\n"
           /\ recalled =>
                 \A rest \in {SubSeq(f.ret.val, Len(head) + 1, Len(f.ret.val))} :
                 \A body \in {LinesOf(SubSeq(rest, 4, Len(rest)), <<>>)} :
                    /\ Len(rest) >= 3
                    /\ SubSeq(rest, 1, 3) = <<"\n", "--- Semantic Memory ---", "\n">>
                    /\ Len(body) = Min(f.rows, IF f.limit <= 0 THEN 5 ELSE f.limit)
                    /\ \A k \in 1..Len(body) :
                          \E d \in DOMAIN vstore : vstore[d].Content = body[k]

C33_Witness ==
    /\ Done(Reader, "HybridContext")
    /\ frames[Reader].ops[1].err = ""
    /\ Len(frames[Reader].ops) = 3
    /\ frames[Reader].ops[3].err = ""
    /\ frames[Reader].rows = 1
    /\ frames[Reader].ret.val =
          UserRole \o <<":", " ", "h", "i", "\n">>
             \o AssistantRole \o <<":", " ", "h", "i", "\n">>
             \o <<"\n", "--- Semantic Memory ---", "\n", "m", "\n">>

\* the keys a step wrote under: the new ones and the ones whose entry changed
Written == {k \in DOMAIN kv' : k \notin DOMAIN kv \/ kv'[k] # kv[k]}

\* C34: every write under a key "session:<id>" carries an expiry of 24
\* hours and every write under the last-response key one of 30 minutes
\* (both in minutes here); no step of the program removes a key.
C34_Expiries ==
    [][/\ DOMAIN kv \subseteq DOMAIN kv'
       /\ \A k \in Written :
             /\ (\E sid \in SessionIDs : k = "session:" \o sid) => kv'[k].ttl = 1440
             /\ k = "llm:last_response" => kv'[k].ttl = 30]_vars

C34_Witness ==
    /\ "session:s1" \in DOMAIN kv
    /\ kv["session:s1"].ttl = 1440
    /\ Len(Transcript(kv["session:s1"].val)) = 2
    /\ "llm:last_response" \in DOMAIN kv
    /\ kv["llm:last_response"].ttl = 30

\* C35: with one writer, whose AppendSession calls run one after the other,
\* no step shortens the transcript stored under a session key or drops a
\* message appended before: the transcript before is the beginning of the
\* transcript after, also where a read of the store failed.
C35_TranscriptGrows ==
    [][\A sid \in SessionIDs :
          SessionKey(sid) \in DOMAIN kv =>
             /\ SessionKey(sid) \in DOMAIN kv'
             /\ \A old \in {Transcript(kv[SessionKey(sid)].val)} :
                \A new \in {Transcript(kv'[SessionKey(sid)].val)} :
                   /\ Len(new) >= Len(old)
                   /\ SubSeq(new, 1, Len(old)) = old]_vars

\* the calls of the service turned down for their input
Rejected(c) ==
    \/ Done(c, "Chat") /\ frames[c].ret.err = "empty message"
    \/ /\ Done(c, "FiveWhy")
       /\ frames[c].ret.err \in {"empty question", "five-why engine disabled"}

\* C36: a call of Chat or of FiveWhy turned down for its input (empty
\* message, empty question, engine disabled) has written nothing to the
\* session memory, nothing to the vector table and nothing to the
\* repository: no write of its went through.
C36_RejectedWritesNothing ==
    \A c \in Callers : Rejected(c) =>
        \A k \in 1..Len(frames[c].ops) :
            frames[c].ops[k].op \in {"set", "store", "save"} =>
                frames[c].ops[k].err # ""

\* a call of Chat whose generation failed, a call of FiveWhy whose run failed
Broke(f) ==
    /\ f.at = "done"
    /\ f.ops # <<>>
    /\ \/ f.op = "Chat" /\ Last(f.ops).op = "generate" /\ Last(f.ops).err # ""
       \/ f.op = "FiveWhy" /\ \E k \in 1..Len(f.ops) :
                                  f.ops[k].op = "run" /\ f.ops[k].err # ""

\* C37: a call of Chat returns the error of its failed generation, a call of
\* FiveWhy that of its failed run, and the failure is the last thing the
\* call did: the user's message, where its append went through, is the last
\* message of the stored transcript as the call returns (it stays, and no
\* assistant message follows it), the table has no new "<sid>_root" row and
\* no call of the repository was made.
C37_FailureStopsWrites ==
    [][\A c \in Callers :
          (frames'[c] # frames[c] /\ Broke(frames'[c])) =>
             \A f \in {frames'[c]} :
                /\ f.ret.err = Last(f.ops).err
                /\ ~f.ret.has
                /\ Last(f.ops).op \in {"generate", "run"}
                /\ \A k \in 1..Len(f.ops) :
                      /\ f.ops[k].op \notin {"store", "save"}
                      /\ f.ops[k].op = "set" => k = 2
                /\ f.sid \o "_root" \notin DOMAIN vstore'
                /\ (Len(f.ops) >= 2 /\ f.ops[2] = Access("set", SessionKey(f.sid), "")) =>
                      /\ SessionKey(f.sid) \in DOMAIN kv'
                      /\ Last(Transcript(kv'[SessionKey(f.sid)].val)) =
                            [Role |-> UserRole, Content |-> f.content]]_vars

C37_Witness ==
    /\ Done(Reader, "FiveWhy")
    /\ frames[Reader].ret.err = "backend failure"
    /\ Len(trace) > 3
    /\ Len(frames[Reader].ops) = 3
    /\ frames[Reader].ops[2] = Access("set", "session:s1", "")
    /\ Transcript(kv["session:s1"].val) = <<[Role |-> UserRole, Content |-> <<"q">>]>>
    /\ "s1_root" \notin DOMAIN vstore

\* the three keys of a session's run
RunKeys(sid) == {sid, sid \o "_rca", sid \o "_solution"}

\* C38: two runs with one session id write their three documents with
\* nothing held between the writes: every Store of a run goes through with
\* no error, each key holding what the later of the two writes left, so
\* that once both have returned the table holds under each of the three
\* keys the document of one run or of the other.
C38_IndependentOverwrites ==
    \A c \in Callers : Done(c, "RunFiveWhy") =>
        /\ Len(frames[c].ops) = 3
        /\ \A k \in 1..3 : frames[c].ops[k].err = ""
        /\ RunKeys(frames[c].sid) \subseteq DOMAIN vstore
        /\ \E question \in {frames[d].content : d \in Callers} :
              vstore[frames[c].sid].Content = question
        /\ \E d \in Callers :
              vstore[frames[c].sid \o "_rca"].Content = frames[d].made.rc
        /\ \E d \in Callers :
              vstore[frames[c].sid \o "_solution"].Content = frames[d].made.sol

\* the keys of the vector table a step wrote under
Upserted == {d \in DOMAIN vstore' : d \notin DOMAIN vstore \/ vstore'[d] # vstore[d]}

\* the row of the summary of a session as Store writes it
SummaryRow(sid, text) ==
    [Content |-> text,
     Vector  |-> vectorToSQL(Embed(text).vec),
     Meta    |-> mapToJSON([type |-> "session_summary", sessionID |-> sid])]

\* a step in which a call of CompressSession returns a nil error
CompressSucceeds(c) == CompressReturns(c) /\ frames'[c].ret.err = ""

\* C39 as stated: a successful CompressSession returns the generated
\* summary, leaves in the table the document "<sessionId>_summary" tagged
\* session_summary with that summary as content, writes no other document,
\* and leaves the transcript of the session as it was.
C39_SummaryStored ==
    [][\A c \in Callers : CompressSucceeds(c) =>
          /\ frames'[c].ret.val = lastGen'[1].resp.Text
          /\ Upserted \subseteq {frames'[c].sid \o "_summary"}
          /\ Entry(vstore', frames'[c].sid \o "_summary")
                = SummaryRow(frames'[c].sid, frames'[c].ret.val)
          /\ Entry(kv', SessionKey(frames'[c].sid))
                = Entry(kv, SessionKey(frames'[c].sid))]_vars

\* C39, amended: a successful CompressSession returns the generated
\* summary and leaves the transcript of the session as it was; it writes
\* no document other than "<sessionId>_summary", and when its Store went
\* through the table holds under that key the summary, tagged
\* session_summary; when the embedding or the Store failed the table is as
\* it was.
C39_SummaryStoredIfAccepted ==
    [][\A c \in Callers : CompressSucceeds(c) =>
          /\ frames'[c].ret.val = lastGen'[1].resp.Text
          /\ Len(frames'[c].ops) = 4
          /\ frames'[c].ops[4].op = "store"
          /\ DOMAIN vstore \subseteq DOMAIN vstore'
          /\ Upserted \subseteq {frames'[c].sid \o "_summary"}
          /\ IF frames'[c].ops[4].err = ""
             THEN Entry(vstore', frames'[c].sid \o "_summary")
                     = SummaryRow(frames'[c].sid, frames'[c].ret.val)
             ELSE vstore' = vstore
          /\ Entry(kv', SessionKey(frames'[c].sid))
                = Entry(kv, SessionKey(frames'[c].sid))]_vars

C39_Witness ==
    /\ Done(Reader, "CompressSession")
    /\ frames[Reader].sid = "s1"
    /\ frames[Reader].ret = [err |-> "", has |-> TRUE, val |-> <<"t", "1">>]
    /\ frames[Reader].ops[4] = Access("store", "s1_summary", "")
    /\ Entry(vstore, "s1_summary") = SummaryRow("s1", <<"t", "1">>)
    /\ Len(Transcript(Entry(kv, SessionKey("s1")).val)) >= 1

\* C40: a call of Engine.Generate, whether it succeeds or fails, leaves the
\* registry of back ends and the table of models per mode as they were.
C40_TablesUntouched ==
    [][lastGen' # lastGen =>
          (providers' = providers /\ modelMap' = modelMap)]_vars

C40_Witness ==
    /\ Called
    /\ G.req.Mode = "creative"
    /\ G.err = ""
    /\ G.sent # <<>>
    /\ DOMAIN providers = {"primary", "secondary"}
    /\ "creative" \notin DOMAIN modelMap

====
